---- MODULE Spec2Model ----
(***************************************************************************)
(* Verification model of the aiostreams per-request stream pipeline:       *)
(*   - StreamContext (packages/core/src/streams/context.ts): the four      *)
(*     memoized async slots and their getters;                             *)
(*   - StreamPrecomputer (streams/precomputer.ts): SeaDex tagging,         *)
(*     preferred-expression claims and ranked-expression scores;           *)
(*   - enrichParsedIdWithAnimeEntry and the AnimeDatabase loaders          *)
(*     (packages/core/src/utils/anime-database.ts).                        *)
(* JavaScript runs every synchronous stretch of code to completion; a      *)
(* task gives up control only at an await.  Each action below is one such  *)
(* synchronous stretch.                                                    *)
(***************************************************************************)
EXTENDS Integers, Sequences, FiniteSets, TLC

VARIABLES
    userData,     \* the request's UserData options the context and precomputer read
    ctx,          \* StreamContext's readonly fields: type, isAnime, parsedId, anilistId
    promise,      \* per slot: the state of _xPromise and of the async body behind it
    settledWith,  \* per slot: the value _xPromise settled with
    cache,        \* per slot: the memo field _metadata, _releaseDates, ...
    fetched,      \* per slot: _metadataFetched / _seadexFetched
    nestedVal,    \* per slot: what the body's own `await this.getMetadata()` returned
    started,      \* per slot: number of remote calls issued so far
    remoteFailed, \* per slot: a remote call of the slot has thrown
    getters,      \* the external getX() calls: pending per slot, made, rejected
    retLog,       \* per slot: the values getX() returned, in order of return
    pipe,         \* the pipeline's precomputeSeaDexOnly call: pc, applied
    streams,      \* the request's ParsedStream list
    seadexResult, \* the SeaDexResult handed to precomputeSeaDexFromResult
    preferredStreamExpressions, \* userData.preferredStreamExpressions
    rankedStreamExpressions,    \* userData.rankedStreamExpressions
    previous,     \* the annotations the precompute run before the last edit left
    pc,           \* position of the precompute run of the precomputer specifications
    parsedId,     \* the ParsedId enrichParsedIdWithAnimeEntry modifies in place
    animeEntry,   \* the AnimeEntry handed to enrichParsedIdWithAnimeEntry
    history,      \* parsedId's season and episode: as given, then after each call
    dataStore,    \* AnimeDatabase.dataStore: the in-memory indices
    mappings,     \* the MappingEntry objects the published fribbMappingsById lists
    loader,       \* per source: where its loadX() call stands, and its local data
    running,      \* the loader whose synchronous section holds the thread, or "none"
    snapshot,     \* the indices as the last finished synchronous section left them
    lastRead,     \* what the last getEntryById call found in the indices
    disk,         \* one source's data file and ETag file
    remote,       \* what the source's URL serves
    pass,         \* the refreshDataSource call of that source: position and locals
    request,      \* the stages of one request's pipeline that started and ended
    database,     \* AnimeDatabase.initialise(): isInitialised, refreshTimers, the loop
    corpus        \* the loads that completed: their order, the cross-reference as read

ctxVars == <<userData, ctx, promise, settledWith, cache, fetched, nestedVal,
             started, remoteFailed, getters, retLog, pipe>>

preVars == <<seadexResult, preferredStreamExpressions, rankedStreamExpressions,
            previous, pc>>

enrichVars == <<parsedId, animeEntry, history>>

aidbVars == <<dataStore, mappings, loader, running, snapshot, lastRead>>

refreshVars == <<disk, remote, pass>>

\* the variables of the specifications that follow SpecAidb
moreVars == <<refreshVars, request, database, corpus>>

libVars == <<enrichVars, aidbVars, moreVars>>

vars == <<ctxVars, streams, preVars, libVars>>

----------------------------------------------------------------------------
(* Bounds of the model. *)

\* number of external getX() calls in one request
NumGetters == 2

\* cap on the remote calls one slot may issue (the code issues at most one)
MaxStarted == 2

\* number of streams of a request in the precomputer specifications
NumStreams == 2

\* longest preferredStreamExpressions list
MaxPreferred == 3

\* longest rankedStreamExpressions list
MaxRanked == 2

----------------------------------------------------------------------------
(* Values. *)

Undefined == "undefined"
Rejected == "REJECTED"
Null == "null"

\* number | null | undefined values of the stream annotations.
JsNum(n) == [kind |-> "number", n |-> n]
JsNull == [kind |-> "null", n |-> 0]
JsUndefined == [kind |-> "undefined", n |-> 0]

\* an optional object of an AnimeEntry that is null or absent
NullObject == [kind |-> "null", seasonNumber |-> JsUndefined, fromEpisode |-> JsUndefined]

\* parsedId, animeEntry and history while no enrichment is modelled
EnrichIdle ==
    /\ parsedId = [type |-> "imdbId", season |-> Undefined, episode |-> Undefined]
    /\ animeEntry = [imdb |-> NullObject, trakt |-> NullObject,
                     tvdb |-> [kind |-> "object", seasonNumber |-> JsNull,
                               fromEpisode |-> JsUndefined],
                     tmdb |-> [kind |-> "object", seasonNumber |-> JsNull,
                               fromEpisode |-> JsUndefined],
                     synonyms |-> [kind |-> "absent", list |-> <<>>]]
    /\ history = <<>>

\* `new Map()`
EmptyMap == [key \in {} |-> <<>>]

\* the dataStore after construction
EmptyStore ==
    [fribbMappingsById |-> [kitsuId |-> EmptyMap, imdbId |-> EmptyMap],
     kitsuById |-> EmptyMap,
     animeListById |-> EmptyMap,
     animeListByTvdbId |-> EmptyMap]

Sources == {"fribbMappings", "kitsuImdb", "animeList"}

\* a loadX() that is not running
Idle == [pc |-> "idle", data |-> <<>>, i |-> 0]

NoRead == [kind |-> "none", during |-> {}, whole |-> TRUE, kitsuWhole |-> TRUE,
           animeListPaired |-> TRUE]

\* the AnimeDatabase after construction, with no call made
AidbFresh ==
    /\ dataStore = EmptyStore
    /\ mappings = <<>>
    /\ loader = [source \in Sources |-> Idle]
    /\ running = "none"
    /\ snapshot = <<EmptyStore, <<>>>>
    /\ lastRead = NoRead

\* a refreshDataSource call that has not been made
NoPass ==
    [pc |-> "idle", remoteEtag |-> "none", localEtag |-> "none",
     isDbMissing |-> FALSE, fetchFromRemote |-> FALSE, responseEtag |-> "none",
     body |-> "none", did |-> {}, outcome |-> "none",
     diskAtStart |-> [data |-> "missing", etag |-> "none"], after |-> "none"]

\* no data file, no ETag file, no refresh
RefreshIdle ==
    /\ disk = [data |-> "missing", etag |-> "none"]
    /\ remote = [content |-> "v1", hasEtag |-> TRUE]
    /\ pass = NoPass

\* a request whose pipeline has not started
NoRequest == [started |-> {}, ended |-> {}, keep |-> {}, filterSaw |-> <<>>, sortSaw |-> <<>>]

\* the AnimeDatabase after construction, initialise() not called
NotInitialised ==
    [isInitialised |-> FALSE, refreshTimers |-> <<>>, pc |-> "idle", i |-> 0,
     levelOfDetail |-> "full", loaded |-> {}, failed |-> {}]

\* no load has completed
NoCorpus == [order |-> <<>>, fribb |-> <<>>, kitsuLoads |-> 0]

MoreIdle ==
    RefreshIdle /\ request = NoRequest /\ database = NotInitialised /\ corpus = NoCorpus

LibIdle == EnrichIdle /\ AidbFresh /\ MoreIdle

Slots == {"metadata", "releaseDates", "episodeAirDate", "seadex"}

\* Results of MetadataService.getMetadata: a Metadata with a tmdbId, one without.
MetadataValues == {"metaTmdb", "metaNoTmdb"}

HasTmdbId(m) == m = "metaTmdb"

\* Results of getSeaDexInfoHashes(anilistId): one with releases, one with none.
SeaDexValues == {"sdReleases", "sdNone"}

SeaDexData(v) ==
    IF v = "sdReleases"
    THEN [bestHashes |-> {"h1"}, allHashes |-> {"h1"},
          bestGroups |-> {}, allGroups |-> {"g1"}]
    ELSE [bestHashes |-> {}, allHashes |-> {}, bestGroups |-> {}, allGroups |-> {}]

\* What the remote call behind a slot can resolve to.  TMDB's getEpisodeAirDate
\* may resolve to undefined (the slot's type is string | undefined).
RemoteValues(s) ==
    CASE s = "metadata" -> MetadataValues
      [] s = "releaseDates" -> {"dates"}
      [] s = "episodeAirDate" -> {"airDate", Undefined}
      [] s = "seadex" -> SeaDexValues

----------------------------------------------------------------------------
(* StreamContext: the start methods.  Each operator maps the context's     *)
(* mutable fields, held in a record c, to their values after the call.     *)

CtxState ==
    [promise |-> promise, cache |-> cache, fetched |-> fetched,
     nestedVal |-> nestedVal, started |-> started]

\* userData.enableSeadex is an optional boolean.
EnableSeadexValues == {"true", "false", "unset"}

Truthy(b) == b = "true"

\* needsMetadata, lines 150-160; otherNeeds stands for the options other
\* than the digital release filter (bitrate, title/year/season matching,
\* the expression lists).
NeedsMetadata ==
    \/ userData.otherNeeds
    \/ (userData.digitalReleaseFilter /\ ctx.type \in {"movie", "series", "anime"})

\* Variants of the early return that forget the promise, or a settled promise.
AlreadyStarted_flagOnly(c, s) == c.fetched[s]

AlreadyStarted_inFlightOnly(c, s) == c.promise[s] \notin {"none", "settled"}

\* The early return of startMetadataFetch / startSeaDexFetch on a promise
\* or a fetched flag.
AlreadyStarted(c, s) == c.promise[s] # "none" \/ c.fetched[s]

StartMetadataFetch(c) ==
    IF AlreadyStarted(c, "metadata") THEN c
    ELSE IF ~NeedsMetadata \/ ctx.parsedId = Null
         THEN [c EXCEPT !.fetched["metadata"] = TRUE]
         ELSE [c EXCEPT !.promise["metadata"] = "remote",
                        !.started["metadata"] = @ + 1]

\* The synchronous head of getMetadata(): the record it leaves and whether
\* the caller now awaits _metadataPromise or has its return value.
GetMetadataSync(c) ==
    IF c.cache["metadata"] # Undefined
    THEN [c |-> c, awaits |-> FALSE]
    ELSE LET c1 == IF c.promise["metadata"] = "none"
                   THEN StartMetadataFetch(c) ELSE c
         IN  [c |-> c1, awaits |-> c1.promise["metadata"] # "none"]

\* The async body of startReleaseDatesFetch / startEpisodeAirDateFetch runs
\* synchronously up to its `await this.getMetadata()`.
BeginDependentBody(c, s) ==
    LET g == GetMetadataSync(c)
    IN  [g.c EXCEPT !.promise[s] = IF g.awaits THEN "awaitMetadataPromise"
                                                ELSE "awaitMetadataReturn",
                    !.nestedVal[s] = g.c.cache["metadata"]]

StartReleaseDatesFetch(c) ==
    IF c.promise["releaseDates"] # "none" \/ ~userData.digitalReleaseFilter
    THEN c
    ELSE BeginDependentBody(c, "releaseDates")

StartEpisodeAirDateFetch(c) ==
    IF \/ c.promise["episodeAirDate"] # "none"
       \/ ~userData.digitalReleaseFilter
       \/ (ctx.type # "series" /\ ~ctx.isAnime)
    THEN c
    ELSE BeginDependentBody(c, "episodeAirDate")

\* The option gate of startSeaDexFetch: `this.userData.enableSeadex === false`.
SeaDexFetchDisabled == userData.enableSeadex = "false"

StartSeaDexFetch(c) ==
    IF \/ AlreadyStarted(c, "seadex")
       \/ ~ctx.isAnime
       \/ SeaDexFetchDisabled
    THEN c
    ELSE IF ctx.anilistId \in {"none", "NaN"}
         THEN [c EXCEPT !.fetched["seadex"] = TRUE]
         ELSE [c EXCEPT !.promise["seadex"] = "remote",
                        !.started["seadex"] = @ + 1]

StartAllFetches(c) == StartSeaDexFetch(StartMetadataFetch(c))

StartX(c, s) ==
    CASE s = "metadata" -> StartMetadataFetch(c)
      [] s = "releaseDates" -> StartReleaseDatesFetch(c)
      [] s = "episodeAirDate" -> StartEpisodeAirDateFetch(c)
      [] s = "seadex" -> StartSeaDexFetch(c)

\* The synchronous head of getX(): memo check, start if no promise, then
\* await the promise if there is one.
GetXSync(c, s) ==
    IF c.cache[s] # Undefined
    THEN [c |-> c, awaits |-> FALSE]
    ELSE LET c1 == IF c.promise[s] = "none" THEN StartX(c, s) ELSE c
         IN  [c |-> c1, awaits |-> c1.promise[s] # "none"]

\* A body without the catch clause: the error leaves the body.
OnRemoteError_rethrow(s) == Rejected

\* What the catch clause of a slot's async body returns.
OnRemoteError(s) == Undefined

----------------------------------------------------------------------------
(* StreamPrecomputer: SeaDex tagging. *)

\* String.prototype.toLowerCase on the hash and group names of the model.
ToLowerCase(x) ==
    CASE x = "H1" -> "h1"
      [] x = "G1" -> "g1"
      [] OTHER -> x

\* stream.seadex: undefined, or {isBest, isSeadex}.
NoTag == <<>>
Tag(isBest, isSeadex) == <<[isBest |-> isBest, isSeadex |-> isSeadex]>>

\* A ParsedStream as the fetcher delivers it: no annotation set.
Stream(id, infoHash, releaseGroup) ==
    [id |-> id, infoHash |-> infoHash, releaseGroup |-> releaseGroup,
     seadex |-> NoTag, streamExpressionMatched |-> JsUndefined,
     streamExpressionScore |-> JsUndefined]

\* `stream.torrent?.infoHash?.toLowerCase()` is truthy and in allHashes.
HashHit(st, r) ==
    st.infoHash # "none" /\ ToLowerCase(st.infoHash) \in r.allHashes

\* First pass, lines 150-170.
HashPass(sts, r) ==
    [i \in DOMAIN sts |->
        IF HashHit(sts[i], r)
        THEN [sts[i] EXCEPT !.seadex =
                 Tag(ToLowerCase(sts[i].infoHash) \in r.bestHashes, TRUE)]
        ELSE sts[i]]

\* Second pass, lines 174-197.
GroupPass(sts, r) ==
    [i \in DOMAIN sts |->
        LET g == ToLowerCase(sts[i].releaseGroup)
        IN  IF /\ sts[i].seadex = NoTag
               /\ sts[i].releaseGroup # "none"
               /\ (g \in r.bestGroups \/ g \in r.allGroups)
            THEN [sts[i] EXCEPT !.seadex = Tag(g \in r.bestGroups, TRUE)]
            ELSE sts[i]]

\* A fallback that runs whether or not a hash matched.
RunsGroupFallback_always(anyHashMatched) == TRUE

\* `if (!anyHashMatched)`: the group fallback runs only when no hash matched.
RunsGroupFallback(anyHashMatched) == ~anyHashMatched

PrecomputeSeaDexFromResult(sts, r) ==
    IF r.bestHashes = {} /\ r.allHashes = {} /\ r.bestGroups = {} /\ r.allGroups = {}
    THEN sts
    ELSE LET anyHashMatched == \E i \in DOMAIN sts : HashHit(sts[i], r)
             first == HashPass(sts, r)
         IN  IF RunsGroupFallback(anyHashMatched) THEN GroupPass(first, r) ELSE first

\* The option gate of precomputeSeaDexOnly: `!this.userData.enableSeadex`.
SeaDexTagDisabled == ~Truthy(userData.enableSeadex)

----------------------------------------------------------------------------
(* The request: external calls on the context, the promises' progress and  *)
(* the pipeline's precomputeSeaDexOnly.                                    *)

DependentSlots == {"releaseDates", "episodeAirDate"}

SetCtx(c) ==
    /\ promise' = c.promise
    /\ cache' = c.cache
    /\ fetched' = c.fetched
    /\ nestedVal' = c.nestedVal
    /\ started' = c.started

\* The fixed stream list of the context specification.
RequestStreams == << Stream(1, "H1", "g1"), Stream(2, "none", "G1") >>

\* The precomputer specifications' variables while the context runs.
PreIdle ==
    /\ seadexResult = SeaDexData("sdNone")
    /\ preferredStreamExpressions = <<>>
    /\ rankedStreamExpressions = <<>>
    /\ previous = <<>>
    /\ pc = "unused"

CtxInit ==
    /\ userData \in [otherNeeds : BOOLEAN, digitalReleaseFilter : BOOLEAN,
                     enableSeadex : EnableSeadexValues]
    /\ ctx \in [type : {"movie", "series"}, isAnime : BOOLEAN,
                parsedId : {Null, "noEpisode", "withEpisode"},
                anilistId : {"none", "NaN", "valid"}]
    \* with the digital release filter on, needsMetadata holds whatever the
    \* other options are
    /\ userData.digitalReleaseFilter => ~userData.otherNeeds
    \* a movie id carries no season and episode
    /\ ctx.type = "movie" => ctx.parsedId # "withEpisode"
    \* the anilistId comes from the anime entry, found through the parsed id
    /\ (~ctx.isAnime \/ ctx.parsedId = Null) => ctx.anilistId = "none"
    /\ promise = [s \in Slots |-> "none"]
    /\ settledWith = [s \in Slots |-> Undefined]
    /\ cache = [s \in Slots |-> Undefined]
    /\ fetched = [s \in Slots |-> FALSE]
    /\ nestedVal = [s \in Slots |-> Undefined]
    /\ started = [s \in Slots |-> 0]
    /\ remoteFailed = [s \in Slots |-> FALSE]
    /\ getters = [pending |-> [s \in Slots |-> 0], calls |-> 0, rejected |-> FALSE]
    /\ retLog = [s \in Slots |-> <<>>]
    /\ pipe = [pc |-> "idle", applied |-> FALSE]
    /\ streams = RequestStreams
    /\ PreIdle
    /\ LibIdle

\* No slot has issued MaxStarted remote calls yet.
MayStart == \A s \in Slots : started[s] < MaxStarted

CallStartX(s) ==
    /\ MayStart
    /\ SetCtx(StartX(CtxState, s))
    /\ UNCHANGED <<userData, ctx, settledWith, remoteFailed, getters, retLog, pipe, streams>>
    /\ UNCHANGED <<preVars, libVars>>

CallStartAllFetches ==
    /\ MayStart
    /\ SetCtx(StartAllFetches(CtxState))
    /\ UNCHANGED <<userData, ctx, settledWith, remoteFailed, getters, retLog, pipe, streams>>
    /\ UNCHANGED <<preVars, libVars>>

\* getX() is called: its synchronous head runs.
CallGetX(s) ==
    /\ MayStart
    /\ getters.calls < NumGetters
    /\ LET g == GetXSync(CtxState, s)
       IN  /\ SetCtx(g.c)
           /\ getters' = [getters EXCEPT !.calls = @ + 1,
                              !.pending[s] = IF g.awaits THEN @ + 1 ELSE @]
           /\ retLog' = IF g.awaits THEN retLog
                        ELSE [retLog EXCEPT ![s] = Append(@, g.c.cache[s])]
    /\ UNCHANGED <<userData, ctx, settledWith, remoteFailed, pipe, streams>>
    /\ UNCHANGED <<preVars, libVars>>

\* A getX() that waits for every fetch that was started.
AwaitedSlots_allStarted(s) == {t \in Slots : promise[t] # "none"}

\* the promises a pending getX() awaits: `await this._xPromise`
AwaitedSlots(s) == {s}

\* One pending getX() resumes: `this._x = await this._xPromise; return this._x;`
GetterResume(s) ==
    /\ getters.pending[s] > 0
    /\ \A t \in AwaitedSlots(s) : promise[t] = "settled"
    /\ IF settledWith[s] = Rejected
       THEN /\ getters' = [getters EXCEPT !.pending[s] = @ - 1, !.rejected = TRUE]
            /\ UNCHANGED <<cache, retLog>>
       ELSE /\ cache' = [cache EXCEPT ![s] = settledWith[s]]
            /\ getters' = [getters EXCEPT !.pending[s] = @ - 1]
            /\ retLog' = [retLog EXCEPT ![s] = Append(@, settledWith[s])]
    /\ UNCHANGED <<userData, ctx, promise, settledWith, fetched, nestedVal, started,
                   remoteFailed, pipe, streams>>
    /\ UNCHANGED <<preVars, libVars>>

\* The getMetadata() call inside a dependent body resumes on _metadataPromise.
NestedGetMetadataResume(s) ==
    /\ promise[s] = "awaitMetadataPromise"
    /\ promise["metadata"] = "settled"
    /\ IF settledWith["metadata"] = Rejected
       THEN /\ promise' = [promise EXCEPT ![s] = "settled"]
            /\ settledWith' = [settledWith EXCEPT ![s] = Rejected]
            /\ UNCHANGED <<cache, nestedVal>>
       ELSE /\ cache' = [cache EXCEPT !["metadata"] = settledWith["metadata"]]
            /\ nestedVal' = [nestedVal EXCEPT ![s] = settledWith["metadata"]]
            /\ promise' = [promise EXCEPT ![s] = "awaitMetadataReturn"]
            /\ UNCHANGED settledWith
    /\ UNCHANGED <<userData, ctx, fetched, started, remoteFailed, getters, retLog,
                   pipe, streams>>
    /\ UNCHANGED <<preVars, libVars>>

\* The guards of a dependent body after its metadata arrived.
DependentBodyGivesUp(s) ==
    \/ ~HasTmdbId(nestedVal[s])
    \/ (s = "releaseDates" /\ ctx.type # "movie")
    \/ (s = "episodeAirDate" /\ ctx.parsedId # "withEpisode")

DependentBodyContinue(s) ==
    /\ promise[s] = "awaitMetadataReturn"
    /\ IF DependentBodyGivesUp(s)
       THEN /\ promise' = [promise EXCEPT ![s] = "settled"]
            /\ settledWith' = [settledWith EXCEPT ![s] = Undefined]
            /\ UNCHANGED started
       ELSE /\ promise' = [promise EXCEPT ![s] = "remote"]
            /\ started' = [started EXCEPT ![s] = @ + 1]
            /\ UNCHANGED settledWith
    /\ UNCHANGED <<userData, ctx, cache, fetched, nestedVal, remoteFailed, getters,
                   retLog, pipe, streams>>
    /\ UNCHANGED <<preVars, libVars>>

\* the fields of a fetched Metadata the expression view exposes
MetadataFields(m) ==
    [title |-> <<"title of", m>>, year |-> <<"year of", m>>,
     genres |-> <<"genres of", m>>, absoluteEpisode |-> <<"absoluteEpisode of", m>>]

\* toExpressionContext(): the fields read from _metadata and _seadex
\* (`this._metadata?.title`, `this._metadata?.genres ?? []`,
\* `!!this._seadex?.allHashes?.size`)
toExpressionContext(c) ==
    LET fields == MetadataFields(c.cache["metadata"])
        has == c.cache["metadata"] # Undefined
    IN  [title |-> IF has THEN fields.title ELSE Undefined,
         year |-> IF has THEN fields.year ELSE Undefined,
         genres |-> IF has THEN fields.genres ELSE <<>>,
         absoluteEpisode |-> IF has THEN fields.absoluteEpisode ELSE Undefined,
         hasSeaDex |-> /\ c.cache["seadex"] # Undefined
                       /\ SeaDexData(c.cache["seadex"]).allHashes # {}]

\* `finally { this._xFetched = true }` exists for metadata and SeaDex only.
FetchedAfterSettle(s) ==
    IF s \in {"metadata", "seadex"} THEN [fetched EXCEPT ![s] = TRUE] ELSE fetched

RemoteResolve(s) ==
    /\ promise[s] = "remote"
    /\ \E v \in RemoteValues(s) : settledWith' = [settledWith EXCEPT ![s] = v]
    /\ promise' = [promise EXCEPT ![s] = "settled"]
    /\ fetched' = FetchedAfterSettle(s)
    /\ UNCHANGED <<userData, ctx, cache, nestedVal, started, remoteFailed, getters,
                   retLog, pipe, streams>>
    /\ UNCHANGED <<preVars, libVars>>

RemoteThrow(s) ==
    /\ promise[s] = "remote"
    /\ settledWith' = [settledWith EXCEPT ![s] = OnRemoteError(s)]
    /\ remoteFailed' = [remoteFailed EXCEPT ![s] = TRUE]
    /\ promise' = [promise EXCEPT ![s] = "settled"]
    /\ fetched' = FetchedAfterSettle(s)
    /\ UNCHANGED <<userData, ctx, cache, nestedVal, started, getters,
                   retLog, pipe, streams>>
    /\ UNCHANGED <<preVars, libVars>>

\* precomputeSeaDexOnly after `await context.getSeaDex()` returned v.
SeaDexOnlyFinish(v) ==
    IF v = Undefined
    THEN /\ pipe' = [pipe EXCEPT !.pc = "done"]
         /\ UNCHANGED streams
    ELSE /\ pipe' = [pc |-> "done", applied |-> TRUE]
         /\ streams' = PrecomputeSeaDexFromResult(streams, SeaDexData(v))

PrecomputeSeaDexOnly ==
    /\ MayStart
    /\ pipe.pc = "idle"
    /\ IF ~ctx.isAnime \/ SeaDexTagDisabled
       THEN /\ pipe' = [pipe EXCEPT !.pc = "done"]
            /\ UNCHANGED <<promise, cache, fetched, nestedVal, started, retLog, streams>>
       ELSE LET g == GetXSync(CtxState, "seadex")
            IN  /\ SetCtx(g.c)
                /\ IF g.awaits
                   THEN /\ pipe' = [pipe EXCEPT !.pc = "await"]
                        /\ UNCHANGED <<retLog, streams>>
                   ELSE /\ retLog' = [retLog EXCEPT !["seadex"] =
                                         Append(@, g.c.cache["seadex"])]
                        /\ SeaDexOnlyFinish(g.c.cache["seadex"])
    /\ UNCHANGED <<userData, ctx, settledWith, remoteFailed, getters>>
    /\ UNCHANGED <<preVars, libVars>>

PrecomputeSeaDexOnlyResume ==
    /\ pipe.pc = "await"
    /\ promise["seadex"] = "settled"
    /\ IF settledWith["seadex"] = Rejected
       THEN /\ pipe' = [pipe EXCEPT !.pc = "rejected"]
            /\ UNCHANGED <<cache, retLog, streams>>
       ELSE /\ cache' = [cache EXCEPT !["seadex"] = settledWith["seadex"]]
            /\ retLog' = [retLog EXCEPT !["seadex"] = Append(@, settledWith["seadex"])]
            /\ SeaDexOnlyFinish(settledWith["seadex"])
    /\ UNCHANGED <<userData, ctx, promise, settledWith, fetched, nestedVal, started,
                   remoteFailed, getters>>
    /\ UNCHANGED <<preVars, libVars>>

CtxNext ==
    \/ \E s \in Slots : CallStartX(s)
    \/ CallStartAllFetches
    \/ \E s \in Slots : CallGetX(s)
    \/ \E s \in Slots : GetterResume(s)
    \/ \E s \in DependentSlots : NestedGetMetadataResume(s)
    \/ \E s \in DependentSlots : DependentBodyContinue(s)
    \/ \E s \in Slots : RemoteResolve(s)
    \/ \E s \in Slots : RemoteThrow(s)
    \/ PrecomputeSeaDexOnly
    \/ PrecomputeSeaDexOnlyResume

SpecCtx == CtxInit /\ [][CtxNext]_vars

----------------------------------------------------------------------------
(* StreamPrecomputer on its own: the three precompute methods applied to   *)
(* stream lists and option lists drawn from bounded sets.                  *)

\* The context's variables while a precomputer specification runs.
\* a StreamContext that is not used
ContextIdle ==
    /\ ctx = [type |-> "series", isAnime |-> TRUE, parsedId |-> "withEpisode",
              anilistId |-> "valid"]
    /\ promise = [s \in Slots |-> "none"]
    /\ settledWith = [s \in Slots |-> Undefined]
    /\ cache = [s \in Slots |-> Undefined]
    /\ fetched = [s \in Slots |-> FALSE]
    /\ nestedVal = [s \in Slots |-> Undefined]
    /\ started = [s \in Slots |-> 0]
    /\ remoteFailed = [s \in Slots |-> FALSE]
    /\ getters = [pending |-> [s \in Slots |-> 0], calls |-> 0, rejected |-> FALSE]
    /\ retLog = [s \in Slots |-> <<>>]
    /\ pipe = [pc |-> "idle", applied |-> FALSE]

CtxIdle ==
    /\ userData = [otherNeeds |-> FALSE, digitalReleaseFilter |-> FALSE,
                   enableSeadex |-> "true"]
    /\ ContextIdle

StreamIds == 1 .. NumStreams

\* Info hashes and release groups as addons report them (any letter case);
\* SeaDex reports lower-case hashes and group names.
InfoHashes == {"none", "H1", "h2"}
ReleaseGroups == {"none", "G1", "g2"}
SeaDexHashes == {"h1", "h2"}
SeaDexGroups == {"g1", "g2"}

SeaDexInit ==
    /\ CtxIdle
    /\ LibIdle
    /\ \E hs \in [StreamIds -> InfoHashes], gs \in [StreamIds -> ReleaseGroups] :
          streams = [i \in StreamIds |-> Stream(i, hs[i], gs[i])]
    /\ seadexResult \in [bestHashes : SUBSET SeaDexHashes, allHashes : SUBSET SeaDexHashes,
                         bestGroups : SUBSET SeaDexGroups, allGroups : SUBSET SeaDexGroups]
    /\ preferredStreamExpressions = <<>>
    /\ rankedStreamExpressions = <<>>
    /\ previous = <<>>
    /\ pc = "ready"

RunPrecomputeSeaDexFromResult ==
    /\ pc = "ready"
    /\ streams' = PrecomputeSeaDexFromResult(streams, seadexResult)
    /\ pc' = "done"
    /\ UNCHANGED <<seadexResult, preferredStreamExpressions, rankedStreamExpressions,
                   previous>>
    /\ UNCHANGED <<ctxVars, libVars>>

SeaDexNext == RunPrecomputeSeaDexFromResult

SpecSeaDex == SeaDexInit /\ [][SeaDexNext]_vars

\* A stream expression, as StreamSelector sees it on the request's streams:
\* the streams its predicate holds of, or an expression whose evaluation
\* raises an error.
Expressions ==
    [selects : SUBSET StreamIds, throws : {FALSE}] \cup {[selects |-> {}, throws |-> TRUE]}

\* StreamSelector.select(streams, expression): the ids of the streams of the
\* given list that satisfy the predicate.
Select(ids, e) == ids \cap e.selects

\* A round that offers every stream, claimed or not, to the expression.
AvailableStreams_all(ids, index) == ids

\* `streams.filter((stream) => !streamToConditionIndex.has(stream.id))`
AvailableStreams(ids, index) == {i \in ids : index[i] = JsUndefined}

\* One round of the loop over preferredStreamExpressions, lines 311-341;
\* index is streamToConditionIndex, i the 0-based position of expression e.
PreferredRound(index, e, i) ==
    IF e.throws THEN index
    ELSE LET selected == Select(AvailableStreams(DOMAIN index, index), e)
         IN  [id \in DOMAIN index |-> IF id \in selected THEN JsNum(i) ELSE index[id]]

RECURSIVE PreferredRounds(_, _, _)
PreferredRounds(index, exprs, i) ==
    IF i >= Len(exprs) THEN index
    ELSE PreferredRounds(PreferredRound(index, exprs[i + 1], i), exprs, i + 1)

\* The stream-expression part of precomputePreferredMatches, lines 306-347.
PrecomputePreferredMatches(sts, exprs) ==
    IF Len(exprs) = 0 THEN sts
    ELSE LET index == PreferredRounds([id \in {sts[k].id : k \in DOMAIN sts} |-> JsUndefined],
                                      exprs, 0)
         IN  [k \in DOMAIN sts |->
                 [sts[k] EXCEPT !.streamExpressionMatched = index[sts[k].id]]]

FixedStreams == [i \in StreamIds |-> Stream(i, "none", "none")]

PreferredInit ==
    /\ CtxIdle
    /\ LibIdle
    /\ streams = FixedStreams
    /\ seadexResult = SeaDexData("sdNone")
    /\ preferredStreamExpressions = <<>>
    /\ rankedStreamExpressions = <<>>
    /\ previous = <<>>
    /\ pc = "ready"

RunPrecomputePreferredMatches ==
    /\ pc = "ready"
    /\ streams' = PrecomputePreferredMatches(streams, preferredStreamExpressions)
    /\ pc' = "done"
    /\ UNCHANGED <<seadexResult, preferredStreamExpressions, rankedStreamExpressions,
                   previous>>
    /\ UNCHANGED <<ctxVars, libVars>>

\* The user appends an expression; the next request fetches the same streams.
AppendPreferredExpression(e) ==
    /\ pc = "done"
    /\ Len(preferredStreamExpressions) < MaxPreferred
    /\ preferredStreamExpressions' = Append(preferredStreamExpressions, e)
    /\ previous' = [k \in DOMAIN streams |-> streams[k].streamExpressionMatched]
    /\ streams' = FixedStreams
    /\ pc' = "ready"
    /\ UNCHANGED <<seadexResult, rankedStreamExpressions>>
    /\ UNCHANGED <<ctxVars, libVars>>

PreferredNext ==
    \/ RunPrecomputePreferredMatches
    \/ \E e \in Expressions : AppendPreferredExpression(e)

SpecPreferred == PreferredInit /\ [][PreferredNext]_vars

\* The scores a ranked entry may carry.
Scores == {-1, 0, 2}

RankedEntries == [expression : Expressions, score : Scores]

\* `streamScores.get(stream.id) ?? 0`
ScoreOrZero(v) == IF v.kind = "number" THEN v.n ELSE 0

\* A round that stores the entry's score instead of adding it.
AddScore_overwrite(currentScore, score) == score

\* `streamScores.set(stream.id, currentScore + score)`
AddScore(currentScore, score) == currentScore + score

\* One round of the loop over rankedStreamExpressions, lines 87-107.
RankedRound(streamScores, entry) ==
    IF entry.expression.throws THEN streamScores
    ELSE LET selected == Select(DOMAIN streamScores, entry.expression)
         IN  [id \in DOMAIN streamScores |->
                 IF id \in selected
                 THEN JsNum(AddScore(ScoreOrZero(streamScores[id]), entry.score))
                 ELSE streamScores[id]]

RECURSIVE RankedRounds(_, _, _)
RankedRounds(streamScores, entries, i) ==
    IF i > Len(entries) THEN streamScores
    ELSE RankedRounds(RankedRound(streamScores, entries[i]), entries, i + 1)

\* A final step that reports an untouched stream as 0.
FinalScore_zero(v) == IF v.kind = "number" THEN v ELSE JsNum(0)

\* `streamScores.get(stream.id) ?? undefined`
FinalScore(v) == IF v.kind = "number" THEN v ELSE JsUndefined

PrecomputeRankedStreamExpressions(sts, entries) ==
    IF Len(entries) = 0 \/ Len(sts) = 0 THEN sts
    ELSE LET streamScores == RankedRounds([id \in {sts[k].id : k \in DOMAIN sts} |-> JsNull],
                                          entries, 1)
         IN  [k \in DOMAIN sts |->
                 [sts[k] EXCEPT !.streamExpressionScore = FinalScore(streamScores[sts[k].id])]]

RankedInit ==
    /\ CtxIdle
    /\ LibIdle
    /\ streams = FixedStreams
    /\ seadexResult = SeaDexData("sdNone")
    /\ preferredStreamExpressions = <<>>
    /\ rankedStreamExpressions = <<>>
    /\ previous = <<>>
    /\ pc = "ready"

RunPrecomputeRankedStreamExpressions ==
    /\ pc = "ready"
    /\ streams' = PrecomputeRankedStreamExpressions(streams, rankedStreamExpressions)
    /\ pc' = "done"
    /\ UNCHANGED <<seadexResult, preferredStreamExpressions, rankedStreamExpressions,
                   previous>>
    /\ UNCHANGED <<ctxVars, libVars>>

\* The user appends a ranked entry; the next request fetches the same streams.
AppendRankedEntry(entry) ==
    /\ pc = "done"
    /\ Len(rankedStreamExpressions) < MaxRanked
    /\ rankedStreamExpressions' = Append(rankedStreamExpressions, entry)
    /\ previous' = [k \in DOMAIN streams |-> streams[k].streamExpressionScore]
    /\ streams' = FixedStreams
    /\ pc' = "ready"
    /\ UNCHANGED <<seadexResult, preferredStreamExpressions>>
    /\ UNCHANGED <<ctxVars, libVars>>

RankedNext ==
    \/ RunPrecomputeRankedStreamExpressions
    \/ \E entry \in RankedEntries : AppendRankedEntry(entry)

SpecRanked == RankedInit /\ [][RankedNext]_vars

----------------------------------------------------------------------------------------------------------------------------------------
(* enrichParsedIdWithAnimeEntry (anime-database.ts). *)

\* enrichParsedIdWithAnimeEntry calls made on one ParsedId
MaxApplications == 2

\* largest episode number Number() is asked to read
MaxNumber == 64

Nullish(v) == v.kind \in {"null", "undefined"}

\* `obj?.field`
OptionalField(obj, field) == IF obj.kind = "object" THEN obj[field] ELSE JsUndefined

\* `n?.toString()`: the decimal digits of n, undefined for null and undefined
NumberToString(v) == IF Nullish(v) THEN Undefined ELSE ToString(v.n)

\* `Number(s)` of a string of decimal digits
ParseNumber(str) == CHOOSE n \in 0 .. MaxNumber : ToString(n) = str

\* `a ?? b` on string | undefined
OrElse(a, b) == IF a # Undefined THEN a ELSE b

\* `a ?? b` on number | null | undefined
NumberOrElse(a, b) == IF Nullish(a) THEN b ELSE a

\* truthiness of string | undefined
TruthyString(str) == str \notin {Undefined, ""}

\* truthiness of number | null | undefined
TruthyNumber(v) == v.kind = "number" /\ v.n # 0

Synonyms == {"Shingeki no Kyojin", "Attack on Titan Season 4"}

\* `synonym.match(/(?:season|s)\s(\d+)/i)`: the captured digits, if any
SeasonRegexMatch(synonym) ==
    IF synonym = "Attack on Titan Season 4" THEN "4" ELSE Undefined

RECURSIVE FirstSeasonMatch(_, _)
FirstSeasonMatch(synonyms, i) ==
    IF i > Len(synonyms) THEN Undefined
    ELSE IF SeasonRegexMatch(synonyms[i]) # Undefined
         THEN SeasonRegexMatch(synonyms[i])
         ELSE FirstSeasonMatch(synonyms, i + 1)

getSeasonFromSynonyms(synonyms) == FirstSeasonMatch(synonyms, 1)

\* the `??` chain that fills a missing season
SeasonFromEntry(entry) ==
    OrElse(NumberToString(OptionalField(entry.imdb, "seasonNumber")),
    OrElse(NumberToString(OptionalField(entry.trakt, "seasonNumber")),
    OrElse(NumberToString(OptionalField(entry.tvdb, "seasonNumber")),
    OrElse(IF entry.synonyms.kind = "array"
           THEN getSeasonFromSynonyms(entry.synonyms.list) ELSE Undefined,
           NumberToString(OptionalField(entry.tmdb, "seasonNumber"))))))

\* `animeEntry.imdb?.fromEpisode ?? animeEntry.tvdb?.fromEpisode`
FromEpisode(entry) ==
    NumberOrElse(OptionalField(entry.imdb, "fromEpisode"),
                 OptionalField(entry.tvdb, "fromEpisode"))

\* `['malId', 'kitsuId'].includes(parsedId.type)`
IsAnimeIdType(type) == type \in {"malId", "kitsuId"}

\* `fromEpisode && fromEpisode !== 1`
ShiftsEpisode(fromEpisode) == TruthyNumber(fromEpisode) /\ fromEpisode.n # 1

enrichParsedIdWithAnimeEntry(p, entry) ==
    LET season == IF ~TruthyString(p.season) THEN SeasonFromEntry(entry) ELSE p.season
        episode ==
            IF /\ TruthyString(p.episode)
               /\ IsAnimeIdType(p.type)
               /\ ShiftsEpisode(FromEpisode(entry))
            THEN ToString(FromEpisode(entry).n + ParseNumber(p.episode) - 1)
            ELSE p.episode
    IN  [p EXCEPT !.season = season, !.episode = episode]

ParsedIds ==
    [type : {"imdbId", "malId", "kitsuId"},
     season : {Undefined, "0", "2"},
     episode : {Undefined, "1", "3"}]

ImdbObjects ==
    {NullObject} \cup
    [kind : {"object"}, seasonNumber : {JsUndefined, JsNum(0), JsNum(1)},
     fromEpisode : {JsUndefined, JsNum(1), JsNum(13)}]

TraktObjects ==
    {NullObject} \cup
    [kind : {"object"}, seasonNumber : {JsNull, JsNum(2)}, fromEpisode : {JsUndefined}]

TvdbObjects ==
    [kind : {"object"}, seasonNumber : {JsNull, JsNum(3)},
     fromEpisode : {JsNull, JsNum(5)}]

TmdbObjects ==
    [kind : {"object"}, seasonNumber : {JsNull, JsNum(5)}, fromEpisode : {JsUndefined}]

SynonymLists ==
    {[kind |-> "absent", list |-> <<>>],
     [kind |-> "array", list |-> <<"Shingeki no Kyojin">>],
     [kind |-> "array", list |-> <<"Shingeki no Kyojin", "Attack on Titan Season 4">>]}

AnimeEntries ==
    [imdb : ImdbObjects, trakt : TraktObjects, tvdb : TvdbObjects,
     tmdb : TmdbObjects, synonyms : SynonymLists]

SeasonAndEpisode(p) == [season |-> p.season, episode |-> p.episode]

EnrichInit ==
    /\ parsedId \in ParsedIds
    /\ animeEntry \in AnimeEntries
    /\ history = <<SeasonAndEpisode(parsedId)>>
    /\ CtxIdle
    /\ streams = <<>>
    /\ PreIdle
    /\ AidbFresh
    /\ MoreIdle

\* one call enrichParsedIdWithAnimeEntry(parsedId, animeEntry)
CallEnrich ==
    /\ Len(history) <= MaxApplications
    /\ parsedId' = enrichParsedIdWithAnimeEntry(parsedId, animeEntry)
    /\ history' = Append(history, SeasonAndEpisode(parsedId'))
    /\ UNCHANGED <<animeEntry, ctxVars, streams, preVars, aidbVars, moreVars>>

EnrichNext == CallEnrich

SpecEnrich == EnrichInit /\ [][EnrichNext]_vars

----------------------------------------------------------------------------
(* AnimeDatabase loaders and getEntryById (anime-database.ts).             *)
(* A loader's synchronous section is taken one statement or loop iteration *)
(* at a time; `running` names the section that holds the thread, and no    *)
(* other code runs until that section reaches an await or returns.         *)

MapSet(map, key, value) ==
    [x \in (DOMAIN map) \cup {key} |-> IF x = key THEN value ELSE map[x]]

\* `map.get(key) || []` for a map of lists
MapGetList(map, key) == IF key \in DOMAIN map THEN map[key] ELSE <<>>

\* Contents of fribb-mappings.json: the array of valid mapping entries.
\* kitsuId 0 and imdbId "none" stand for an id the entry does not carry.
FribbFiles ==
    {[kind |-> "missing", entries |-> <<>>],
     [kind |-> "notArray", entries |-> <<>>],
     [kind |-> "array", entries |-> <<[kitsuId |-> 1, imdbId |-> "none"]>>],
     [kind |-> "array", entries |-> <<[kitsuId |-> 1, imdbId |-> "none"],
                                     [kitsuId |-> 2, imdbId |-> "tt2"]>>],
     [kind |-> "array", entries |-> <<[kitsuId |-> 1, imdbId |-> "none"],
                                     [kitsuId |-> 1, imdbId |-> "tt1"]>>]}

\* Contents of the Kitsu file: a JSON object, as its [key, value] pairs in
\* order; valid = validateKitsuEntry accepts the value.
KitsuFiles ==
    {[kind |-> "missing", entries |-> <<>>],
     [kind |-> "null", entries |-> <<>>],
     [kind |-> "object", entries |->
        <<[kitsuId |-> 1, valid |-> TRUE, imdbId |-> "tt1"]>>],
     [kind |-> "object", entries |->
        <<[kitsuId |-> 1, valid |-> TRUE, imdbId |-> "tt1"],
          [kitsuId |-> 2, valid |-> TRUE, imdbId |-> "none"]>>],
     [kind |-> "object", entries |->
        <<[kitsuId |-> 1, valid |-> FALSE, imdbId |-> "none"],
          [kitsuId |-> 2, valid |-> TRUE, imdbId |-> "tt2"]>>]}

\* Contents of the AnimeList XML: the valid <anime> entries; tvdbId 0 stands
\* for an entry without one.
AnimeListFiles ==
    {[kind |-> "missing", entries |-> <<>>],
     [kind |-> "invalidXml", entries |-> <<>>],
     [kind |-> "xml", entries |-> <<[anidbId |-> 1, tvdbId |-> 7]>>],
     [kind |-> "xml", entries |-> <<[anidbId |-> 1, tvdbId |-> 7],
                                   [anidbId |-> 2, tvdbId |-> 7]>>],
     [kind |-> "xml", entries |-> <<[anidbId |-> 2, tvdbId |-> 0]>>]}

FilesOf(source) ==
    CASE source = "fribbMappings" -> FribbFiles
      [] source = "kitsuImdb" -> KitsuFiles
      [] source = "animeList" -> AnimeListFiles

\* `existingEntry.push(entry)` or `.set(idValue, [entry])`
AddToIndex(map, key, p) == MapSet(map, key, Append(MapGetList(map, key), p))

\* the inner loop over ID_TYPES for entry p (a MappingEntry is named by its
\* position in validEntries)
IndexMappingEntry(index, entries, p) ==
    LET byKitsu == IF entries[p].kitsuId # 0
                   THEN [index EXCEPT !.kitsuId = AddToIndex(@, entries[p].kitsuId, p)]
                   ELSE index
    IN  IF entries[p].imdbId # "none"
        THEN [byKitsu EXCEPT !.imdbId = AddToIndex(@, entries[p].imdbId, p)]
        ELSE byKitsu

RECURSIVE IndexMappingEntries(_, _, _)
IndexMappingEntries(index, entries, p) ==
    IF p > Len(entries) THEN index
    ELSE IndexMappingEntries(IndexMappingEntry(index, entries, p), entries, p + 1)

\* newMappingsById of loadFribbMappings
NewMappingsById(entries) ==
    IndexMappingEntries([kitsuId |-> EmptyMap, imdbId |-> EmptyMap], entries, 1)

\* An enrichment that pushes the mapping whatever the list holds.
AlreadyListed_never(existingImdbMappings, objects, kitsuId) == FALSE

\* `existingImdbMappings.some((m) => m.kitsuId === Number(kitsuId))`
AlreadyListed(existingImdbMappings, objects, kitsuId) ==
    \E q \in DOMAIN existingImdbMappings : objects[existingImdbMappings[q]].kitsuId = kitsuId

\* the body of `for (const mapping of kitsuMappings)` for the mapping at
\* position j of the list: st is [mappings, imdbMap]
EnrichMapping(st, list, j, kitsuId, imdbId) ==
    IF st.mappings[list[j]].imdbId # "none" THEN st
    ELSE LET enriched == [st.mappings EXCEPT ![list[j]].imdbId = imdbId]
             existingImdbMappings == MapGetList(st.imdbMap, imdbId)
         IN  IF AlreadyListed(existingImdbMappings, enriched, kitsuId)
             THEN [st EXCEPT !.mappings = enriched]
             ELSE [mappings |-> enriched,
                   imdbMap |-> MapSet(st.imdbMap, imdbId,
                                      Append(existingImdbMappings, list[j]))]

RECURSIVE EnrichMappings(_, _, _, _, _)
EnrichMappings(st, list, j, kitsuId, imdbId) ==
    IF j > Len(list) THEN st
    ELSE EnrichMappings(EnrichMapping(st, list, j, kitsuId, imdbId),
                        list, j + 1, kitsuId, imdbId)

\* one iteration of the loop of loadKitsuImdbMapping: st is [dataStore, mappings]
KitsuIteration(st, entry) ==
    IF ~entry.valid THEN st
    ELSE LET stored == [st.dataStore EXCEPT
                           !.kitsuById = MapSet(@, entry.kitsuId, [imdbId |-> entry.imdbId])]
             kitsuMappings == MapGetList(stored.fribbMappingsById.kitsuId, entry.kitsuId)
             done == EnrichMappings([mappings |-> st.mappings,
                                     imdbMap |-> stored.fribbMappingsById.imdbId],
                                    kitsuMappings, 1, entry.kitsuId, entry.imdbId)
         IN  IF entry.imdbId = "none" THEN [dataStore |-> stored, mappings |-> st.mappings]
             ELSE [dataStore |-> [stored EXCEPT !.fribbMappingsById.imdbId = done.imdbMap],
                   mappings |-> done.mappings]

\* the loop of loadKitsuImdbMapping has no await
KitsuLoopAwaits_eachEntry == TRUE

KitsuLoopAwaits == FALSE

\* who holds the thread between two iterations of that loop
KitsuLoopHolder == IF KitsuLoopAwaits THEN "none" ELSE "kitsuImdb"

RECURSIVE NewAnimeListById(_, _)
NewAnimeListById(entries, p) ==
    IF p = 0 THEN EmptyMap
    ELSE MapSet(NewAnimeListById(entries, p - 1), entries[p].anidbId, entries[p])

RECURSIVE NewAnimeListByTvdbId(_, _)
NewAnimeListByTvdbId(entries, p) ==
    IF p = 0 THEN EmptyMap
    ELSE IF entries[p].tvdbId # 0
         THEN AddToIndex(NewAnimeListByTvdbId(entries, p - 1), entries[p].tvdbId, entries[p])
         ELSE NewAnimeListByTvdbId(entries, p - 1)

\* what a lookup can reach: the indices and the mapping objects they list
Indices == <<dataStore, mappings>>

AidbInit ==
    /\ AidbFresh
    /\ CtxIdle
    /\ streams = <<>>
    /\ PreIdle
    /\ EnrichIdle
    /\ MoreIdle

\* a synchronous section has run to its end or has thrown
SectionEnds(source) ==
    /\ loader' = [loader EXCEPT ![source] = Idle]
    /\ running' = "none"
    /\ snapshot' = Indices'

\* refreshDataSource calls this[source.loader](): the loader runs up to its
\* `await this.readLocalFile(...)`
CallLoader(source) ==
    /\ running = "none"
    /\ loader[source].pc = "idle"
    /\ loader' = [loader EXCEPT ![source].pc = "reading"]
    /\ UNCHANGED <<dataStore, mappings, running, snapshot, lastRead>>
    /\ UNCHANGED <<ctxVars, streams, preVars, enrichVars, moreVars>>

\* loadFribbMappings after readLocalFile: the checks and the build of
\* newMappingsById
FribbRead(file) ==
    /\ running = "none"
    /\ loader["fribbMappings"].pc = "reading"
    /\ IF file.kind # "array"
       THEN /\ loader' = [loader EXCEPT !["fribbMappings"] = Idle]
            /\ UNCHANGED running
       ELSE /\ loader' = [loader EXCEPT !["fribbMappings"] =
                             [pc |-> "swap", data |-> file.entries, i |-> 0]]
            /\ running' = "fribbMappings"
    /\ UNCHANGED <<dataStore, mappings, snapshot, lastRead>>
    /\ UNCHANGED <<ctxVars, streams, preVars, enrichVars, moreVars>>

\* `this.dataStore.fribbMappingsById = newMappingsById`
FribbSwap ==
    /\ running = "fribbMappings"
    /\ loader["fribbMappings"].pc = "swap"
    /\ dataStore' = [dataStore EXCEPT
                        !.fribbMappingsById = NewMappingsById(loader["fribbMappings"].data)]
    /\ mappings' = loader["fribbMappings"].data
    /\ SectionEnds("fribbMappings")
    /\ UNCHANGED lastRead
    /\ UNCHANGED <<ctxVars, streams, preVars, enrichVars, moreVars>>

\* loadKitsuImdbMapping after readLocalFile: JSON.parse, then
\* `this.dataStore.kitsuById = new Map()`; Object.entries(null) throws
KitsuRead(file) ==
    /\ running = "none"
    /\ loader["kitsuImdb"].pc = "reading"
    /\ CASE file.kind = "missing" ->
              /\ loader' = [loader EXCEPT !["kitsuImdb"] = Idle]
              /\ UNCHANGED <<dataStore, running, snapshot>>
         [] file.kind = "null" ->
              /\ dataStore' = [dataStore EXCEPT !.kitsuById = EmptyMap]
              /\ loader' = [loader EXCEPT !["kitsuImdb"] = Idle]
              /\ snapshot' = <<dataStore', mappings>>
              /\ UNCHANGED running
         [] file.kind = "object" ->
              /\ dataStore' = [dataStore EXCEPT !.kitsuById = EmptyMap]
              /\ loader' = [loader EXCEPT !["kitsuImdb"] =
                               [pc |-> "loop", data |-> file.entries, i |-> 1]]
              /\ running' = KitsuLoopHolder
              /\ UNCHANGED snapshot
    /\ UNCHANGED <<mappings, lastRead>>
    /\ UNCHANGED <<ctxVars, streams, preVars, enrichVars, moreVars>>

\* one iteration of `for (const [kitsuId, kitsuEntry] of Object.entries(data))`
KitsuLoopStep ==
    /\ loader["kitsuImdb"].pc = "loop"
    /\ running = KitsuLoopHolder
    /\ loader["kitsuImdb"].i <= Len(loader["kitsuImdb"].data)
    /\ LET after == KitsuIteration([dataStore |-> dataStore, mappings |-> mappings],
                                   loader["kitsuImdb"].data[loader["kitsuImdb"].i])
       IN  /\ dataStore' = after.dataStore
           /\ mappings' = after.mappings
    /\ loader' = [loader EXCEPT !["kitsuImdb"].i = @ + 1]
    /\ UNCHANGED <<running, snapshot, lastRead>>
    /\ UNCHANGED <<ctxVars, streams, preVars, enrichVars, moreVars>>

\* the loop is over: the closing log line, and the loader returns
KitsuLoopEnds ==
    /\ loader["kitsuImdb"].pc = "loop"
    /\ running = KitsuLoopHolder
    /\ loader["kitsuImdb"].i > Len(loader["kitsuImdb"].data)
    /\ UNCHANGED <<dataStore, mappings, lastRead>>
    /\ SectionEnds("kitsuImdb")
    /\ UNCHANGED <<ctxVars, streams, preVars, enrichVars, moreVars>>

\* loadAnimeList after readLocalFile: up to `await parser.parseStringPromise`
AnimeListRead(file) ==
    /\ running = "none"
    /\ loader["animeList"].pc = "reading"
    /\ IF file.kind = "missing"
       THEN loader' = [loader EXCEPT !["animeList"] = Idle]
       ELSE loader' = [loader EXCEPT !["animeList"] =
                          [pc |-> "parsing", data |-> <<file>>, i |-> 0]]
    /\ UNCHANGED <<dataStore, mappings, running, snapshot, lastRead>>
    /\ UNCHANGED <<ctxVars, streams, preVars, enrichVars, moreVars>>

\* the XML is parsed: the structure check and the build of the two new maps
AnimeListParsed ==
    /\ running = "none"
    /\ loader["animeList"].pc = "parsing"
    /\ IF loader["animeList"].data[1].kind # "xml"
       THEN /\ loader' = [loader EXCEPT !["animeList"] = Idle]
            /\ UNCHANGED running
       ELSE /\ loader' = [loader EXCEPT !["animeList"] =
                             [pc |-> "setById", data |-> loader["animeList"].data[1].entries,
                              i |-> 0]]
            /\ running' = "animeList"
    /\ UNCHANGED <<dataStore, mappings, snapshot, lastRead>>
    /\ UNCHANGED <<ctxVars, streams, preVars, enrichVars, moreVars>>

\* `this.dataStore.animeListById = newAnimeListById`
AnimeListSetById ==
    /\ running = "animeList"
    /\ loader["animeList"].pc = "setById"
    /\ dataStore' = [dataStore EXCEPT
                        !.animeListById =
                            NewAnimeListById(loader["animeList"].data,
                                             Len(loader["animeList"].data))]
    /\ loader' = [loader EXCEPT !["animeList"].pc = "setByTvdbId"]
    /\ UNCHANGED <<mappings, running, snapshot, lastRead>>
    /\ UNCHANGED <<ctxVars, streams, preVars, enrichVars, moreVars>>

\* `this.dataStore.animeListByTvdbId = newAnimeListByTvdbId`, and the return
AnimeListSetByTvdbId ==
    /\ running = "animeList"
    /\ loader["animeList"].pc = "setByTvdbId"
    /\ dataStore' = [dataStore EXCEPT
                        !.animeListByTvdbId =
                            NewAnimeListByTvdbId(loader["animeList"].data,
                                                 Len(loader["animeList"].data))]
    /\ UNCHANGED <<mappings, lastRead>>
    /\ SectionEnds("animeList")
    /\ UNCHANGED <<ctxVars, streams, preVars, enrichVars, moreVars>>

\* kitsuById holds exactly the valid entries of one Kitsu file, or is empty
KitsuIndexWhole(store) ==
    \/ store.kitsuById = EmptyMap
    \/ \E file \in KitsuFiles :
          /\ DOMAIN store.kitsuById =
                {file.entries[p].kitsuId : p \in {q \in DOMAIN file.entries : file.entries[q].valid}}
          /\ \A p \in DOMAIN file.entries :
                file.entries[p].valid =>
                    store.kitsuById[file.entries[p].kitsuId].imdbId = file.entries[p].imdbId

\* animeListById and animeListByTvdbId index the same AnimeList file
AnimeListIndicesPaired(store) ==
    \/ store.animeListById = EmptyMap /\ store.animeListByTvdbId = EmptyMap
    \/ \E file \in AnimeListFiles :
          /\ store.animeListById = NewAnimeListById(file.entries, Len(file.entries))
          /\ store.animeListByTvdbId = NewAnimeListByTvdbId(file.entries, Len(file.entries))

\* a getEntryById call: synchronous, it reads the indices as they stand
getEntryById ==
    /\ running = "none"
    /\ lastRead' = [kind |-> "call",
                    during |-> {source \in Sources : loader[source].pc # "idle"},
                    whole |-> (Indices = snapshot),
                    kitsuWhole |-> KitsuIndexWhole(dataStore),
                    animeListPaired |-> AnimeListIndicesPaired(dataStore)]
    /\ UNCHANGED <<dataStore, mappings, loader, running, snapshot>>
    /\ UNCHANGED <<ctxVars, streams, preVars, enrichVars, moreVars>>

AidbNext ==
    \/ \E source \in Sources : CallLoader(source)
    \/ \E file \in FribbFiles : FribbRead(file)
    \/ FribbSwap
    \/ \E file \in KitsuFiles : KitsuRead(file)
    \/ KitsuLoopStep
    \/ KitsuLoopEnds
    \/ \E file \in AnimeListFiles : AnimeListRead(file)
    \/ AnimeListParsed
    \/ AnimeListSetById
    \/ AnimeListSetByTvdbId
    \/ getEntryById

SpecAidb == AidbInit /\ [][AidbNext]_vars

----------------------------------------------------------------------------
(* The loads of the cross-reference and of the Kitsu corpus, one after     *)
(* another in any order, as the per-source timers of                        *)
(* setupAllRefreshIntervals start them.  What follows the file read of a    *)
(* loader is one synchronous section (SpecAidb takes it step by step), so   *)
(* here a load is one step.  corpus records the loads that completed.       *)

\* the Kitsu loads counted since the last load of the cross-reference
MaxKitsuLoads == 2

\* cross-reference files, among them one whose entry has another imdbId than
\* the Kitsu corpus gives for its kitsuId, and one that lists a kitsuId
\* twice under one imdbId
CrossReferenceFiles ==
    FribbFiles
    \cup {[kind |-> "array", entries |-> <<[kitsuId |-> 1, imdbId |-> "tt9"]>>],
          [kind |-> "array", entries |-> <<[kitsuId |-> 1, imdbId |-> "tt1"],
                                          [kitsuId |-> 1, imdbId |-> "tt1"]>>]}

\* the loop of loadKitsuImdbMapping from entry i on
RECURSIVE KitsuLoop(_, _, _)
KitsuLoop(st, entries, i) ==
    IF i > Len(entries) THEN st
    ELSE KitsuLoop(KitsuIteration(st, entries[i]), entries, i + 1)

\* the order of the completed loads after one more of `source`
Completed(order, source) ==
    Append(SelectSeq(order, LAMBDA other : other # source), source)

ReloadInit ==
    /\ AidbFresh
    /\ CtxIdle
    /\ streams = <<>>
    /\ PreIdle
    /\ EnrichIdle
    /\ MoreIdle

\* loadFribbMappings() from its call to its return or throw
LoadFribbMappings(file) ==
    /\ IF file.kind # "array"
       THEN UNCHANGED <<dataStore, mappings, corpus>>
       ELSE /\ dataStore' = [dataStore EXCEPT
                                !.fribbMappingsById = NewMappingsById(file.entries)]
            /\ mappings' = file.entries
            /\ corpus' = [order |-> Completed(corpus.order, "fribbMappings"),
                          fribb |-> file.entries, kitsuLoads |-> 0]
    /\ snapshot' = <<dataStore', mappings'>>
    /\ lastRead' = NoRead
    /\ UNCHANGED <<loader, running>>
    /\ UNCHANGED <<ctxVars, streams, preVars, enrichVars, refreshVars, request, database>>

\* loadKitsuImdbMapping() from its call to its return or throw
LoadKitsuImdbMapping(file) ==
    /\ corpus.kitsuLoads < MaxKitsuLoads
    /\ CASE file.kind = "missing" -> UNCHANGED <<dataStore, mappings, corpus>>
         [] file.kind = "null" ->
              /\ dataStore' = [dataStore EXCEPT !.kitsuById = EmptyMap]
              /\ UNCHANGED <<mappings, corpus>>
         [] file.kind = "object" ->
              /\ LET after == KitsuLoop([dataStore |-> [dataStore EXCEPT
                                                           !.kitsuById = EmptyMap],
                                         mappings |-> mappings],
                                        file.entries, 1)
                 IN  /\ dataStore' = after.dataStore
                     /\ mappings' = after.mappings
              /\ corpus' = [corpus EXCEPT !.order = Completed(@, "kitsuImdb"),
                                          !.kitsuLoads = @ + 1]
    /\ snapshot' = <<dataStore', mappings'>>
    /\ lastRead' = NoRead
    /\ UNCHANGED <<loader, running>>
    /\ UNCHANGED <<ctxVars, streams, preVars, enrichVars, refreshVars, request, database>>

\* getEntryById('imdbId', idValue) reads the list of the IMDb index; lastRead
\* holds the last call made since the last load
CallGetEntryByImdbId(idValue) ==
    /\ lastRead' = [kind |-> "byImdbId", idValue |-> idValue,
                    listed |-> MapGetList(dataStore.fribbMappingsById.imdbId, idValue)]
    /\ UNCHANGED <<dataStore, mappings, loader, running, snapshot>>
    /\ UNCHANGED <<ctxVars, streams, preVars, enrichVars, moreVars>>

ReloadNext ==
    \/ \E file \in CrossReferenceFiles : LoadFribbMappings(file)
    \/ \E file \in KitsuFiles : LoadKitsuImdbMapping(file)
    \/ \E idValue \in {"tt1", "tt2", "tt9"} : CallGetEntryByImdbId(idValue)

SpecReload == ReloadInit /\ [][ReloadNext]_vars

----------------------------------------------------------------------------
(* refreshDataSource and downloadFile (anime-database.ts), for one source. *)
(* Every await of the pass is a step; the remote may change between steps. *)
(* The calls of one source follow one another, as in the loop of           *)
(* initialise(), which awaits each refresh.                                *)

\* what the URL can serve: a loadable corpus in two versions, or one the
\* loader rejects
RemoteContents == {"v1", "v2", "bad"}

\* the ETag the server sends for a content
ETagOf(content) ==
    CASE content = "v1" -> "etag-v1"
      [] content = "v2" -> "etag-v2"
      [] content = "bad" -> "etag-bad"

RemoteStates == [content : RemoteContents, hasEtag : BOOLEAN]

\* the `etag` header of a response
EtagHeader(r) == IF r.hasEtag THEN ETagOf(r.content) ELSE "none"

\* the loader throws on a missing, truncated or malformed file
LoaderSucceeds(data) == data \in {"v1", "v2"}

\* A pass that downloads only when the two tags differ.
FetchFromRemote_onlyOnTagChange(isDbMissing, remoteEtag, localEtag) ==
    remoteEtag # localEtag

\* A pass that downloads every time.
FetchFromRemote_always(isDbMissing, remoteEtag, localEtag) == TRUE

\* `isDbMissing || !remoteEtag || !localEtag || remoteEtag !== localEtag`
FetchFromRemote(isDbMissing, remoteEtag, localEtag) ==
    \/ isDbMissing
    \/ remoteEtag = "none"
    \/ localEtag = "none"
    \/ remoteEtag # localEtag

\* `remoteEtag ?? response.headers.get('etag')`
EtagToWrite(remoteEtag, responseEtag) ==
    IF remoteEtag # "none" THEN remoteEtag ELSE responseEtag

\* A catch clause that deletes the files whether or not the pass downloaded.
DeletesLocalFiles_always(fetchFromRemote) == TRUE

\* `if (!fetchFromRemote)` of the catch clause around the loader
DeletesLocalFiles(fetchFromRemote) == ~fetchFromRemote

DiskStates ==
    [data : {"missing", "partial", "v1", "bad"},
     etag : {"none", "etag-v1", "etag-v2"}]

RefreshInit ==
    /\ disk \in DiskStates
    /\ remote \in RemoteStates
    /\ pass = NoPass
    /\ request = NoRequest
    /\ database = NotInitialised
    /\ corpus = NoCorpus
    /\ CtxIdle
    /\ streams = <<>>
    /\ PreIdle
    /\ EnrichIdle
    /\ AidbFresh

\* the pass ends: refreshDataSource resolves ("ok") or rejects ("threw")
PassEnds(p, outcome) == [p EXCEPT !.pc = "done", !.outcome = outcome]

\* what the pass that just ended was, for the one that follows it
KindOfPass(p) ==
    IF p.pc = "done" /\ p.outcome = "threw" /\ "loader" \in p.did /\ ~p.fetchFromRemote
    THEN "loadFailedWithoutDownload"
    ELSE "other"

\* refreshDataSource(source) is called: up to the HEAD request
CallRefreshDataSource ==
    /\ pass.pc \in {"idle", "done"}
    /\ pass' = [NoPass EXCEPT !.pc = "head", !.diskAtStart = disk,
                              !.after = KindOfPass(pass)]
    /\ UNCHANGED <<disk, remote>>
    /\ UNCHANGED <<ctxVars, streams, preVars, enrichVars, aidbVars, request, database, corpus>>

\* the server publishes another content, or starts or stops sending ETags
RemoteChanges(r) ==
    /\ r # remote
    /\ pass.pc \notin {"idle", "done"}
    /\ remote' = r
    /\ UNCHANGED <<disk, pass>>
    /\ UNCHANGED <<ctxVars, streams, preVars, enrichVars, aidbVars, request, database, corpus>>

\* fetchRemoteEtag returns: the header, or null when the request failed
HeadReturns(ok) ==
    /\ pass.pc = "head"
    /\ pass' = [pass EXCEPT !.pc = "readEtag",
                            !.remoteEtag = IF ok THEN EtagHeader(remote) ELSE "none"]
    /\ UNCHANGED <<disk, remote>>
    /\ UNCHANGED <<ctxVars, streams, preVars, enrichVars, aidbVars, request, database, corpus>>

\* readLocalFile(source.etagPath) returns
ReadEtagReturns ==
    /\ pass.pc = "readEtag"
    /\ pass' = [pass EXCEPT !.pc = "fileExists", !.localEtag = disk.etag]
    /\ UNCHANGED <<disk, remote>>
    /\ UNCHANGED <<ctxVars, streams, preVars, enrichVars, aidbVars, request, database, corpus>>

\* fileExists(source.filePath) returns: the decision, and the GET request
\* or the loader call that follows it
FileExistsReturns ==
    /\ pass.pc = "fileExists"
    /\ LET missing == disk.data = "missing"
           fetch == FetchFromRemote(missing, pass.remoteEtag, pass.localEtag)
       IN  pass' = [pass EXCEPT !.isDbMissing = missing,
                                !.fetchFromRemote = fetch,
                                !.pc = IF fetch THEN "get" ELSE "load",
                                !.did = IF fetch THEN {"GET"} ELSE {}]
    /\ UNCHANGED <<disk, remote>>
    /\ UNCHANGED <<ctxVars, streams, preVars, enrichVars, aidbVars, request, database, corpus>>

\* the GET request returns; a failed request or a status that is not ok
\* makes downloadFile throw
GetReturns(ok) ==
    /\ pass.pc = "get"
    /\ pass' = IF ok
               THEN [pass EXCEPT !.pc = "mkdir", !.body = remote.content,
                                 !.responseEtag = EtagHeader(remote)]
               ELSE PassEnds(pass, "threw")
    /\ UNCHANGED <<disk, remote>>
    /\ UNCHANGED <<ctxVars, streams, preVars, enrichVars, aidbVars, request, database, corpus>>

\* fs.mkdir returns; createWriteStream(filePath) truncates the data file
MkdirReturns ==
    /\ pass.pc = "mkdir"
    /\ disk' = [disk EXCEPT !.data = "partial"]
    /\ pass' = [pass EXCEPT !.pc = "stream", !.did = @ \cup {"writeData"}]
    /\ UNCHANGED remote
    /\ UNCHANGED <<ctxVars, streams, preVars, enrichVars, aidbVars, request, database, corpus>>

\* the body has been piped to the file, or the stream failed on the way
StreamEnds(ok) ==
    /\ pass.pc = "stream"
    /\ IF ok
       THEN /\ disk' = [disk EXCEPT !.data = pass.body]
            /\ pass' = [pass EXCEPT
                           !.pc = IF EtagToWrite(pass.remoteEtag, pass.responseEtag) # "none"
                                  THEN "writeEtag" ELSE "load",
                           !.did = @ \cup {"streamed"}]
       ELSE /\ pass' = PassEnds(pass, "threw")
            /\ UNCHANGED disk
    /\ UNCHANGED remote
    /\ UNCHANGED <<ctxVars, streams, preVars, enrichVars, aidbVars, request, database, corpus>>

\* fs.writeFile(etagPath, etag) returns
WriteEtagReturns ==
    /\ pass.pc = "writeEtag"
    /\ disk' = [disk EXCEPT !.etag = EtagToWrite(pass.remoteEtag, pass.responseEtag)]
    /\ pass' = [pass EXCEPT !.pc = "load", !.did = @ \cup {"writeEtag"}]
    /\ UNCHANGED remote
    /\ UNCHANGED <<ctxVars, streams, preVars, enrichVars, aidbVars, request, database, corpus>>

\* `await this[source.loader]()` returns or throws
LoaderReturns ==
    /\ pass.pc = "load"
    /\ LET called == [pass EXCEPT !.did = @ \cup {"loader"}]
       IN  pass' = IF LoaderSucceeds(disk.data) THEN PassEnds(called, "ok")
                   ELSE IF DeletesLocalFiles(pass.fetchFromRemote)
                        THEN [called EXCEPT !.pc = "unlinkEtag"]
                        ELSE PassEnds(called, "threw")
    /\ UNCHANGED <<disk, remote>>
    /\ UNCHANGED <<ctxVars, streams, preVars, enrichVars, aidbVars, request, database, corpus>>

\* fs.unlink(source.etagPath) returns, or throws on a file that is not there
UnlinkEtagReturns ==
    /\ pass.pc = "unlinkEtag"
    /\ IF disk.etag = "none"
       THEN /\ pass' = PassEnds(pass, "threw")
            /\ UNCHANGED disk
       ELSE /\ disk' = [disk EXCEPT !.etag = "none"]
            /\ pass' = [pass EXCEPT !.pc = "unlinkFile", !.did = @ \cup {"unlinkEtag"}]
    /\ UNCHANGED remote
    /\ UNCHANGED <<ctxVars, streams, preVars, enrichVars, aidbVars, request, database, corpus>>

\* fs.unlink(source.filePath) returns or throws, then `throw error`
UnlinkFileReturns ==
    /\ pass.pc = "unlinkFile"
    /\ IF disk.data = "missing"
       THEN /\ pass' = PassEnds(pass, "threw")
            /\ UNCHANGED disk
       ELSE /\ disk' = [disk EXCEPT !.data = "missing"]
            /\ pass' = PassEnds([pass EXCEPT !.did = @ \cup {"unlinkFile"}], "threw")
    /\ UNCHANGED remote
    /\ UNCHANGED <<ctxVars, streams, preVars, enrichVars, aidbVars, request, database, corpus>>

RefreshNext ==
    \/ CallRefreshDataSource
    \/ \E r \in RemoteStates : RemoteChanges(r)
    \/ \E ok \in BOOLEAN : HeadReturns(ok)
    \/ ReadEtagReturns
    \/ FileExistsReturns
    \/ \E ok \in BOOLEAN : GetReturns(ok)
    \/ MkdirReturns
    \/ \E ok \in BOOLEAN : StreamEnds(ok)
    \/ WriteEtagReturns
    \/ LoaderReturns
    \/ UnlinkEtagReturns
    \/ UnlinkFileReturns

SpecRefresh == RefreshInit /\ [][RefreshNext]_vars

----------------------------------------------------------------------------------------------------------------------------------------
(* precomputePreferredMatches (precomputer.ts) as a whole: the regex       *)
(* permission, the keywords, the regex patterns and the stream expressions. *)
(* In this specification userData holds the preferred settings of the user  *)
(* and the answer of FeatureControl.isRegexAllowed for them.                *)

\* what a stream can carry in filename, folderName, releaseGroup or indexer
Attributes == {"x.mkv", "GRP"}

\* the fetched streams: the first has a filename, the second a release group
MatchStreams ==
    [i \in StreamIds |->
        Stream(i, "none", IF i = 2 THEN "GRP" ELSE "none")
        @@ [filename |-> IF i = 1 THEN "x.mkv" ELSE "none",
            folderName |-> "none", indexer |-> "none",
            keywordMatched |-> "undefined", regexMatched |-> JsUndefined]]

\* `regexPattern.pattern.source` of the pattern that matches these values
SourceOf(matches) ==
    IF matches = {} THEN "(?!)"
    ELSE IF matches = {"x.mkv"} THEN "mkv"
    ELSE IF matches = {"GRP"} THEN "GRP"
    ELSE "mkv|GRP"

\* a compiled pattern, by the attribute values it matches; no pattern here
\* matches the empty string
RegexPatterns ==
    {[negate |-> negate, matches |-> matches, name |-> "pattern",
      source |-> SourceOf(matches)] : negate \in BOOLEAN, matches \in SUBSET Attributes}

\* isMatch(pattern, attribute)
isMatch(pattern, attribute) == attribute \in pattern.matches

\* `attribute ? isMatch(regexPattern.pattern, attribute) : false`
determineMatch(regexPattern, attribute) ==
    IF attribute = "none" THEN FALSE ELSE isMatch(regexPattern, attribute)

\* filenameMatch || folderNameMatch || releaseGroupMatch || indexerMatch
AnyAttributeMatches(st, regexPattern) ==
    \/ determineMatch(regexPattern, st.filename)
    \/ determineMatch(regexPattern, st.folderName)
    \/ determineMatch(regexPattern, st.releaseGroup)
    \/ determineMatch(regexPattern, st.indexer)

\* A test that ignores the synthetic n flag.
PatternHit_ignoringNegate(st, regexPattern) == AnyAttributeMatches(st, regexPattern)

\* `match = regexPattern.negate ? !match : match`
PatternHit(st, regexPattern) ==
    IF regexPattern.negate THEN ~AnyAttributeMatches(st, regexPattern)
    ELSE AnyAttributeMatches(st, regexPattern)

\* the loop over preferredRegexPatterns for one stream, from index i on
RECURSIVE RegexMatched(_, _, _)
RegexMatched(st, patterns, i) ==
    IF i >= Len(patterns) THEN st.regexMatched
    ELSE IF PatternHit(st, patterns[i + 1])
    THEN [kind |-> "object", name |-> patterns[i + 1].name,
          pattern |-> patterns[i + 1].source, index |-> i]
    ELSE RegexMatched(st, patterns, i + 1)

\* the keyword test; an absent attribute is tested as ''
KeywordMatched(st, keywords) ==
    IF AnyAttributeMatches(st, keywords) THEN "true" ELSE "false"

\* A gate that compiles the patterns whatever isRegexAllowed answers.
RegexPatternsInUse_ignoringPermission(user) == user.preferredRegexPatterns

\* preferredRegexPatterns of precomputePreferredMatches: the compiled
\* patterns, or <<>> for undefined
RegexPatternsInUse(user) ==
    IF user.regexAllowed THEN user.preferredRegexPatterns ELSE <<>>

\* precomputePreferredMatches(streams, context)
PrecomputePreferred(sts, user, exprs) ==
    LET patterns == RegexPatternsInUse(user)
        withKeywords ==
            [k \in DOMAIN sts |->
                IF user.preferredKeywords = <<>> THEN sts[k]
                ELSE [sts[k] EXCEPT
                         !.keywordMatched = KeywordMatched(sts[k], user.preferredKeywords[1])]]
        withRegex ==
            [k \in DOMAIN sts |->
                [withKeywords[k] EXCEPT !.regexMatched = RegexMatched(withKeywords[k], patterns, 0)]]
    IN  IF patterns = <<>> /\ user.preferredKeywords = <<>> /\ Len(exprs) = 0
        THEN sts
        ELSE PrecomputePreferredMatches(withRegex, exprs)

\* preferredRegexPatterns: none, one or two patterns
PatternLists ==
    {<<>>} \cup {<<a>> : a \in RegexPatterns}
    \cup {<<a, [b EXCEPT !.name = "other pattern"]>> : a \in RegexPatterns, b \in RegexPatterns}

\* preferredKeywords: undefined (<<>>) or the one pattern formed from them
KeywordSettings == {<<>>} \cup {<<[negate |-> FALSE, matches |-> m]>> : m \in SUBSET Attributes}

\* preferredStreamExpressions: none or one
ExpressionLists == {<<>>} \cup {<<e>> : e \in Expressions}

MatchesInit ==
    /\ userData \in [regexAllowed : BOOLEAN, preferredRegexPatterns : PatternLists,
                     preferredKeywords : KeywordSettings]
    /\ ContextIdle
    /\ LibIdle
    /\ streams = MatchStreams
    /\ seadexResult = SeaDexData("sdNone")
    /\ preferredStreamExpressions \in ExpressionLists
    /\ rankedStreamExpressions = <<>>
    /\ previous = <<>>
    /\ pc = "ready"

RunPrecomputePreferred ==
    /\ pc = "ready"
    /\ streams' = PrecomputePreferred(streams, userData, preferredStreamExpressions)
    /\ pc' = "done"
    /\ UNCHANGED <<seadexResult, preferredStreamExpressions, rankedStreamExpressions,
                   previous>>
    /\ UNCHANGED <<ctxVars, libVars>>

SpecMatches == MatchesInit /\ [][RunPrecomputePreferred]_vars

\* the attributes a fetched stream can have: none, one of the four, or a
\* filename and a release group
AttributesOfStream ==
    {[filename |-> "none", folderName |-> "none", releaseGroup |-> "none", indexer |-> "none"],
     [filename |-> "x.mkv", folderName |-> "none", releaseGroup |-> "none", indexer |-> "none"],
     [filename |-> "none", folderName |-> "x.mkv", releaseGroup |-> "none", indexer |-> "none"],
     [filename |-> "none", folderName |-> "none", releaseGroup |-> "GRP", indexer |-> "none"],
     [filename |-> "none", folderName |-> "none", releaseGroup |-> "none", indexer |-> "GRP"],
     [filename |-> "x.mkv", folderName |-> "none", releaseGroup |-> "GRP", indexer |-> "none"]}

\* the fetched streams with these attributes
StreamsWith(attributes) ==
    [i \in StreamIds |-> attributes[i] @@ MatchStreams[i]]

\* the regex loop alone: regex is allowed, the user has patterns and neither
\* keywords nor expressions, and the streams have any attributes
RegexInit ==
    /\ userData \in [regexAllowed : {TRUE}, preferredRegexPatterns : PatternLists,
                     preferredKeywords : {<<>>}]
    /\ ContextIdle
    /\ LibIdle
    /\ streams \in {StreamsWith(attributes) : attributes \in [StreamIds -> AttributesOfStream]}
    /\ seadexResult = SeaDexData("sdNone")
    /\ preferredStreamExpressions = <<>>
    /\ rankedStreamExpressions = <<>>
    /\ previous = <<>>
    /\ pc = "ready"

SpecRegex == RegexInit /\ [][RunPrecomputePreferred]_vars

----------------------------------------------------------------------------
(* precomputePreferred (precomputer.ts): precomputePreferredMatches, then  *)
(* precomputeRankedStreamExpressions, with expressions whose evaluation     *)
(* raises.  For such an expression `selects` is what it would have selected *)
(* had it not raised.                                                       *)

RaisingExpressions == [selects : SUBSET StreamIds, throws : BOOLEAN]

\* preferredStreamExpressions: none, one or two
RaisingExpressionLists ==
    {<<>>} \cup {<<a>> : a \in RaisingExpressions}
    \cup {<<a, b>> : a \in RaisingExpressions, b \in RaisingExpressions}

\* rankedStreamExpressions: none, one or two, each with score 2
RaisingRankedLists ==
    {[i \in DOMAIN list |-> [expression |-> list[i], score |-> 2]] :
        list \in RaisingExpressionLists}

\* a user without preferred regex patterns and keywords
NoPatterns ==
    [regexAllowed |-> TRUE, preferredRegexPatterns |-> <<>>, preferredKeywords |-> <<>>]

\* Loops that call selector.select outside a try block.
CatchesExpressionError_never == FALSE

\* selector.select is awaited inside try { } catch { logger.error } in both
\* loops
CatchesExpressionError == TRUE

\* an error of selector.select leaves its loop and the stage
StageRaises(exprs, entries) ==
    /\ ~CatchesExpressionError
    /\ \/ \E i \in DOMAIN exprs : exprs[i].throws
       \/ \E i \in DOMAIN entries : entries[i].expression.throws

\* precomputePreferred(streams, context)
precomputePreferred(sts, user, exprs, entries) ==
    PrecomputeRankedStreamExpressions(PrecomputePreferred(sts, user, exprs), entries)

LateInit ==
    /\ userData = NoPatterns
    /\ ContextIdle
    /\ LibIdle
    /\ streams = MatchStreams
    /\ seadexResult = SeaDexData("sdNone")
    /\ preferredStreamExpressions \in RaisingExpressionLists
    /\ rankedStreamExpressions \in RaisingRankedLists
    /\ previous = <<>>
    /\ pc = "ready"

RunPrecomputePreferredStage ==
    /\ pc = "ready"
    /\ IF StageRaises(preferredStreamExpressions, rankedStreamExpressions)
       THEN pc' = "threw" /\ UNCHANGED streams
       ELSE /\ pc' = "done"
            /\ streams' = precomputePreferred(streams, userData, preferredStreamExpressions,
                                              rankedStreamExpressions)
    /\ UNCHANGED <<seadexResult, preferredStreamExpressions, rankedStreamExpressions,
                   previous>>
    /\ UNCHANGED <<ctxVars, libVars>>

SpecLate == LateInit /\ [][RunPrecomputePreferredStage]_vars

----------------------------------------------------------------------------
(* The pipeline of one request.  Its stages and their order are those of    *)
(* the specification's data-flow section; precomputeSeaDexOnly and          *)
(* precomputePreferred are the stages precomputer.ts implements.  A stage   *)
(* is an async call: it starts, and its effect on the stream list is there  *)
(* when it ends.                                                            *)

PipelineStages == <<"fetch", "seadex", "filter", "preferred", "sort", "dedup">>

\* A pipeline that starts a stage without awaiting the one before it.
AwaitsStage_never == FALSE

\* every stage is awaited before the next one is called
AwaitsStage == TRUE

\* the streams the fetcher returns
FetchedStreams == [MatchStreams EXCEPT ![1].infoHash = "H1"]

\* the stream list when stage n ends
StageEffect(n, sts, keep) ==
    CASE PipelineStages[n] = "fetch" -> FetchedStreams
      [] PipelineStages[n] = "seadex" -> PrecomputeSeaDexFromResult(sts, seadexResult)
      [] PipelineStages[n] = "filter" -> SelectSeq(sts, LAMBDA st : st.id \in keep)
      [] PipelineStages[n] = "preferred" ->
             precomputePreferred(sts, userData, preferredStreamExpressions,
                                 rankedStreamExpressions)
      [] OTHER -> sts

PipelineInit ==
    /\ userData = NoPatterns
    /\ ContextIdle
    /\ EnrichIdle
    /\ AidbFresh
    /\ RefreshIdle
    /\ database = NotInitialised
    /\ corpus = NoCorpus
    /\ request \in [started : {{}}, ended : {{}}, keep : SUBSET StreamIds,
                    filterSaw : {<<>>}, sortSaw : {<<>>}]
    /\ streams = <<>>
    /\ seadexResult \in {SeaDexData(v) : v \in SeaDexValues}
    /\ preferredStreamExpressions \in ExpressionLists
    /\ rankedStreamExpressions \in {<<>>, <<[expression |-> [selects |-> {1}, throws |-> FALSE],
                                            score |-> 2]>>}
    /\ previous = <<>>
    /\ pc = "unused"

\* the pipeline calls stage n
StageStarts(n) ==
    /\ n \notin request.started
    /\ n > 1 => (n - 1) \in (IF AwaitsStage THEN request.ended ELSE request.started)
    /\ request' = [request EXCEPT !.started = @ \cup {n}]
    /\ UNCHANGED <<streams, ctxVars, preVars, enrichVars, aidbVars, refreshVars, database, corpus>>

\* stage n resolves
StageEnds(n) ==
    /\ n \in request.started \ request.ended
    /\ request' = [request EXCEPT
                      !.ended = @ \cup {n},
                      !.filterSaw = IF PipelineStages[n] = "filter" THEN streams ELSE @,
                      !.sortSaw = IF PipelineStages[n] = "sort" THEN streams ELSE @]
    /\ streams' = StageEffect(n, streams, request.keep)
    /\ UNCHANGED <<ctxVars, preVars, enrichVars, aidbVars, refreshVars, database, corpus>>

PipelineNext ==
    \E n \in DOMAIN PipelineStages : StageStarts(n) \/ StageEnds(n)

SpecPipeline == PipelineInit /\ [][PipelineNext]_vars

----------------------------------------------------------------------------
(* AnimeDatabase.initialise() and setupAllRefreshIntervals().  A call of    *)
(* refreshDataSource, retries included, is one awaited step that resolves   *)
(* or rejects.                                                              *)

\* Object.values(DATA_SOURCES)
DataSources ==
    <<"fribbMappings", "manami", "kitsuImdb", "anitraktMovies", "anitraktTv", "animeList">>

\* A loop that awaits refreshDataSource outside a try block.
CatchesRefreshError_never == FALSE

\* `try { await this.refreshDataSource(dataSource) } catch { logger.error }`
CatchesRefreshError == TRUE

InitialiseInit ==
    /\ database \in [isInitialised : {FALSE}, refreshTimers : {<<>>}, pc : {"idle"},
                     i : {0}, levelOfDetail : {"none", "full"}, loaded : {{}},
                     failed : {{}}]
    /\ CtxIdle
    /\ streams = <<>>
    /\ PreIdle
    /\ EnrichIdle
    /\ AidbFresh
    /\ RefreshIdle
    /\ request = NoRequest
    /\ corpus = NoCorpus

\* setupAllRefreshIntervals(); this.isInitialised = true
SetupAllRefreshIntervals(db) ==
    [db EXCEPT !.refreshTimers = DataSources, !.isInitialised = TRUE, !.pc = "done"]

\* initialise() is called: up to the first await, or to its early return
CallInitialise ==
    /\ database.pc \in {"idle", "done"}
    /\ database' =
           IF database.isInitialised THEN [database EXCEPT !.pc = "done"]
           ELSE IF database.levelOfDetail = "none"
           THEN [database EXCEPT !.isInitialised = TRUE, !.pc = "done"]
           ELSE [database EXCEPT !.pc = "refreshing", !.i = 1]
    /\ UNCHANGED <<ctxVars, streams, preVars, enrichVars, aidbVars, refreshVars, request, corpus>>

\* the awaited refreshDataSource of source i settles; after the last one
\* the timers are installed
RefreshSettles(ok) ==
    /\ database.pc = "refreshing"
    /\ LET source == DataSources[database.i]
           settled == IF ok THEN [database EXCEPT !.loaded = @ \cup {source}]
                      ELSE [database EXCEPT !.failed = @ \cup {source}]
       IN  database' =
               IF ~ok /\ ~CatchesRefreshError THEN [settled EXCEPT !.pc = "threw"]
               ELSE IF database.i < Len(DataSources) THEN [settled EXCEPT !.i = @ + 1]
               ELSE SetupAllRefreshIntervals(settled)
    /\ UNCHANGED <<ctxVars, streams, preVars, enrichVars, aidbVars, refreshVars, request, corpus>>

\* a timer fires and its refreshDataSource(source).catch(...) settles
TimerFires(n, ok) ==
    /\ n \in DOMAIN database.refreshTimers
    /\ database.pc = "done"
    /\ database' = IF ok THEN [database EXCEPT !.loaded = @ \cup {database.refreshTimers[n]}]
                   ELSE database
    /\ UNCHANGED <<ctxVars, streams, preVars, enrichVars, aidbVars, refreshVars, request, corpus>>

InitialiseNext ==
    \/ CallInitialise
    \/ \E ok \in BOOLEAN : RefreshSettles(ok)
    \/ \E n \in DOMAIN DataSources, ok \in BOOLEAN : TimerFires(n, ok)

SpecInitialise == InitialiseInit /\ [][InitialiseNext]_vars

----------------------------------------------------------------------------
(* The refreshDataSource runs in progress.  initialise() may be called     *)
(* while an earlier call is suspended in its loop, and a timer fires       *)
(* whatever the state of the run its previous tick started.  In this       *)
(* specification database holds, per initialise() call, its position, and  *)
(* the sources of the runs the timers started that have not settled.  A    *)
(* run settles by resolving or rejecting; the loop and the timer callback  *)
(* catch the rejection, so both go on alike.                               *)

\* initialise() calls of the process
MaxInitialiseCalls == 2

\* timer-started runs that may be unsettled at a time
MaxTimerRuns == 1

InitialiseCalls == 1 .. MaxInitialiseCalls

OverlapInit ==
    /\ database \in [isInitialised : {FALSE}, refreshTimers : {<<>>},
                     levelOfDetail : {"none", "full"},
                     calls : {[c \in InitialiseCalls |-> [pc |-> "idle", i |-> 0]]},
                     timerRuns : {<<>>}]
    /\ CtxIdle
    /\ streams = <<>>
    /\ PreIdle
    /\ EnrichIdle
    /\ AidbFresh
    /\ RefreshIdle
    /\ request = NoRequest
    /\ corpus = NoCorpus

\* the sources whose refreshDataSource run was started by this initialise()
\* call and has not settled
AwaitedBy(call) ==
    IF call.pc = "refreshing" THEN {DataSources[call.i]} ELSE {}

\* the number of refreshDataSource runs of the source in progress
InProgress(db, source) ==
    Cardinality({c \in InitialiseCalls : source \in AwaitedBy(db.calls[c])})
    + Cardinality({n \in DOMAIN db.timerRuns : db.timerRuns[n] = source})

\* initialise() is called: up to the first await, or to its early return
InitialiseCalled(c) ==
    /\ database.calls[c].pc = "idle"
    /\ database' =
           IF database.isInitialised THEN [database EXCEPT !.calls[c].pc = "done"]
           ELSE IF database.levelOfDetail = "none"
           THEN [database EXCEPT !.isInitialised = TRUE, !.calls[c].pc = "done"]
           ELSE [database EXCEPT !.calls[c] = [pc |-> "refreshing", i |-> 1]]
    /\ UNCHANGED <<ctxVars, streams, preVars, enrichVars, aidbVars, refreshVars, request, corpus>>

\* the refreshDataSource this call awaits settles: the loop starts the run
\* of the next source, or ends with setupAllRefreshIntervals() and
\* `this.isInitialised = true`
InitialiseResumes(c) ==
    /\ database.calls[c].pc = "refreshing"
    /\ database' =
           IF database.calls[c].i < Len(DataSources)
           THEN [database EXCEPT !.calls[c].i = @ + 1]
           ELSE [database EXCEPT !.refreshTimers = DataSources, !.isInitialised = TRUE,
                                 !.calls[c].pc = "done"]
    /\ UNCHANGED <<ctxVars, streams, preVars, enrichVars, aidbVars, refreshVars, request, corpus>>

\* the interval of timer n elapses: `this.refreshDataSource(source)` starts
TimerStartsRefresh(n) ==
    /\ n \in DOMAIN database.refreshTimers
    /\ Len(database.timerRuns) < MaxTimerRuns
    /\ database' = [database EXCEPT !.timerRuns = Append(@, database.refreshTimers[n])]
    /\ UNCHANGED <<ctxVars, streams, preVars, enrichVars, aidbVars, refreshVars, request, corpus>>

\* a run a timer started settles
TimerRefreshSettles(n) ==
    /\ n \in DOMAIN database.timerRuns
    /\ database' = [database EXCEPT !.timerRuns =
                        SubSeq(@, 1, n - 1) \o SubSeq(@, n + 1, Len(@))]
    /\ UNCHANGED <<ctxVars, streams, preVars, enrichVars, aidbVars, refreshVars, request, corpus>>

OverlapNext ==
    \/ \E c \in InitialiseCalls : InitialiseCalled(c)
    \/ \E c \in InitialiseCalls : InitialiseResumes(c)
    \/ \E n \in DOMAIN DataSources : TimerStartsRefresh(n)
    \/ \E n \in 1 .. MaxTimerRuns : TimerRefreshSettles(n)

SpecOverlap == OverlapInit /\ [][OverlapNext]_vars

----------------
(* getEntryById (anime-database.ts), on a loaded dataStore.  In this        *)
(* specification dataStore holds the indices the lookup reads and lastRead  *)
(* what the last call selected and returned.  An absent id is 0 or "none".  *)

AnimeType == {"TV", "MOVIE", "SPECIAL", "OVA", "ONA", "UNKNOWN"}

\* the cross-reference entry of title k; both titles are seasons of one
\* show, so they share the IMDb and TVDB id
MappingEntry(k, type) ==
    [type |-> type, kitsuId |-> k, malId |-> k, anidbId |-> k,
     thetvdbId |-> 7, imdbId |-> "tt1"]

\* `mappings` when no mapping is selected
NoMapping ==
    [type |-> "none", kitsuId |-> 0, malId |-> 0, anidbId |-> 0,
     thetvdbId |-> 0, imdbId |-> "none"]

\* valid entries of fribb-mappings.json
FribbEntries ==
    {<<>>}
    \cup {<<MappingEntry(1, t)>> : t \in AnimeType}
    \cup {<<MappingEntry(1, t), MappingEntry(2, u)>> : t \in AnimeType, u \in {"TV", "OVA"}}

IdTypes == {"kitsuId", "malId", "anidbId", "thetvdbId", "imdbId"}

\* the values a lookup is made with, per id type; 3, 9 and "tt9" are ids
\* the cross-reference does not list
IdValues(idType) ==
    CASE idType = "imdbId" -> {"tt1", "tt9"}
      [] idType = "thetvdbId" -> {7, 9}
      [] OTHER -> {1, 2, 3}

RECURSIVE ListToSet(_)
ListToSet(list) == IF list = <<>> THEN {} ELSE {Head(list)} \cup ListToSet(Tail(list))

\* arr.filter(test)
Filter(list, Test(_)) == SelectSeq(list, Test)

\* fribbMappingsById as loadFribbMappings builds it: per id type, the
\* entries listed under each id, in file order
FribbMappingsById(entries) ==
    [idType \in IdTypes |->
        [id \in {e[idType] : e \in ListToSet(entries)} |->
            Filter(entries, LAMBDA e : e[idType] = id)]]

NoDetails == [title |-> "none", synonyms |-> {}]

\* manamiById, by the id of the title
ManamiMaps ==
    {EmptyMap,
     (1 :> [title |-> "Title", synonyms |-> {"Title"}])
        @@ (2 :> [title |-> "Title II", synonyms |-> {"Title Season 1"}])}

NoKitsuEntry == [imdbId |-> "none", fromSeason |-> JsUndefined, fromEpisode |-> JsUndefined]

KitsuMaps ==
    {EmptyMap,
     (3 :> [imdbId |-> "tt3", fromSeason |-> JsNum(1), fromEpisode |-> JsUndefined]),
     (1 :> [imdbId |-> "tt1", fromSeason |-> JsNum(0), fromEpisode |-> JsUndefined])
        @@ (2 :> [imdbId |-> "tt1", fromSeason |-> JsNum(0), fromEpisode |-> JsNum(2)]),
     (1 :> [imdbId |-> "tt1", fromSeason |-> JsNum(1), fromEpisode |-> JsNum(2)])
        @@ (2 :> [imdbId |-> "tt1", fromSeason |-> JsNum(1), fromEpisode |-> JsUndefined])}

NoAnitraktEntry == [trakt |-> "none"]

\* extendedAnitraktTvById and extendedAnitraktMoviesById
AnitraktMaps ==
    {[tv |-> EmptyMap, movies |-> EmptyMap],
     [tv |-> (3 :> [trakt |-> "title-3"]), movies |-> EmptyMap],
     [tv |-> EmptyMap, movies |-> (3 :> [trakt |-> "title-3"])]}

NoAnimeListEntry ==
    [anidbId |-> 0, tvdbId |-> 0, defaultTvdbSeason |-> JsNull,
     episodeOffset |-> JsUndefined, tmdbSeason |-> JsNull, tmdbOffset |-> JsUndefined]

\* an <anime> element of the AnimeList XML
AnimeListEntry(anidbId, tvdbId, season, offset) ==
    [anidbId |-> anidbId, tvdbId |-> tvdbId, defaultTvdbSeason |-> season,
     episodeOffset |-> offset, tmdbSeason |-> JsNull, tmdbOffset |-> JsUndefined]

\* an <anime> element that also names a TMDB season
WithTmdbSeason(entry, season, offset) ==
    [entry EXCEPT !.tmdbSeason = season, !.tmdbOffset = offset]

\* valid entries of the AnimeList XML: none, one without a TVDB id, two of
\* one TVDB id, one alone under its TVDB id, two of which the second names
\* a TMDB season
AnimeListEntries ==
    {<<>>,
     <<AnimeListEntry(3, 0, JsNull, JsUndefined)>>,
     <<AnimeListEntry(1, 7, JsNum(1), JsUndefined), AnimeListEntry(2, 7, JsNum(1), JsNum(1))>>,
     <<AnimeListEntry(2, 7, JsNum(1), JsNum(1))>>,
     <<AnimeListEntry(1, 7, JsNum(0), JsUndefined),
       WithTmdbSeason(AnimeListEntry(2, 7, JsNum(0), JsNum(1)), JsNum(1), JsUndefined)>>}

\* animeListById as loadAnimeList builds it
AnimeListById(entries) ==
    [id \in {e.anidbId : e \in ListToSet(entries)} |->
        CHOOSE e \in ListToSet(entries) : e.anidbId = id]

\* animeListByTvdbId as loadAnimeList builds it
AnimeListByTvdbId(entries) ==
    [id \in {e.tvdbId : e \in ListToSet(entries)} \ {0} |->
        Filter(entries, LAMBDA e : e.tvdbId = id)]

LoadedStores ==
    {[fribbMappingsById |-> FribbMappingsById(fribb),
      manamiById |-> manami,
      kitsuById |-> kitsu,
      extendedAnitraktTvById |-> anitrakt.tv,
      extendedAnitraktMoviesById |-> anitrakt.movies,
      animeListById |-> AnimeListById(animeList),
      animeListByTvdbId |-> AnimeListByTvdbId(animeList)] :
        fribb \in FribbEntries, manami \in ManamiMaps, kitsu \in KitsuMaps,
        anitrakt \in AnitraktMaps, animeList \in AnimeListEntries}

\* `map.get(key)`, with `absent` for undefined
MapGet(map, key, absent) == IF key \in DOMAIN map THEN map[key] ELSE absent

\* A filter that keeps every entry.
SeasonTypeTest_keepsAll(entry, season) == TRUE

\* the test of the filter of filterMappingsBySeasonType
SeasonTypeTest(entry, season) ==
    IF entry.type = "UNKNOWN" THEN TRUE
    ELSE IF season = JsUndefined THEN entry.type = "MOVIE"
    ELSE IF season = JsNum(0) THEN entry.type \in {"SPECIAL", "OVA", "ONA"}
    ELSE entry.type = "TV"

filterMappingsBySeasonType(mappingsList, season) ==
    LET seasonFiltered == Filter(mappingsList, LAMBDA entry : SeasonTypeTest(entry, season))
    IN  IF Len(seasonFiltered) > 0 THEN seasonFiltered ELSE mappingsList

\* the first id of the mapping that manamiById lists; the ids of one title
\* are equal here, so the title's id stands for all of them
findManamiDetailsFromMapping(store, mapping) ==
    MapGet(store.manamiById, mapping.anidbId, NoDetails)

\* what selectBestMappingAndDetails returns when it selects nothing
NoMatch == [mappings |-> NoMapping, details |-> NoDetails, animeListEntry |-> NoAnimeListEntry]

\* `fromEpisode ?? 1`, `(episodeOffset ?? 0) + 1`
NumberOr(v, default) == IF v.kind = "number" THEN v.n ELSE default

\* a mapping whose Kitsu entry starts in the season, at or before the episode
KitsuQualifies(store, m, season, episode) ==
    /\ m.kitsuId # 0
    /\ m.kitsuId \in DOMAIN store.kitsuById
    /\ store.kitsuById[m.kitsuId].fromSeason = season
    /\ episode.n >= NumberOr(store.kitsuById[m.kitsuId].fromEpisode, 1)

\* `candidates.push({mapping, fromEpisode, source: 'kitsu'})` for each of them
KitsuCandidateOf(store, qualified) ==
    [i \in DOMAIN qualified |->
        [mapping |-> qualified[i],
         fromEpisode |-> NumberOr(store.kitsuById[qualified[i].kitsuId].fromEpisode, 1),
         animeListEntry |-> NoAnimeListEntry]]

\* the candidates from the Kitsu entries, in list order
KitsuCandidates(store, mappingsList, season, episode) ==
    KitsuCandidateOf(store,
        Filter(mappingsList, LAMBDA m : KitsuQualifies(store, m, season, episode)))

\* the first TVDB id among the mappings listed under the IMDb id, or 0
getTvdbIdFromImdbId(store, imdbId) ==
    LET withTvdb == Filter(MapGetList(store.fribbMappingsById.imdbId, imdbId),
                           LAMBDA m : m.thetvdbId # 0)
    IN  IF withTvdb = <<>> THEN 0 ELSE withTvdb[1].thetvdbId

\* the loop of findAnimeListMatchForTvdbSeason from candidate i on
RECURSIVE AnimeListLoop(_, _, _, _, _, _)
AnimeListLoop(candidates, i, season, episode, bestMatch, highestOffset) ==
    IF i > Len(candidates) THEN bestMatch
    ELSE LET candidate == candidates[i]
             tvdbHit == /\ candidate.defaultTvdbSeason # JsNull
                        /\ candidate.defaultTvdbSeason \in {season, [kind |-> "a", n |-> 0]}
                        /\ episode.n >= 1 + NumberOr(candidate.episodeOffset, 0)
                        /\ NumberOr(candidate.episodeOffset, 0) > highestOffset
             afterTvdb == IF tvdbHit
                          THEN <<candidate, NumberOr(candidate.episodeOffset, 0)>>
                          ELSE <<bestMatch, highestOffset>>
             tmdbHit == /\ candidate.tmdbSeason # JsNull
                        /\ candidate.tmdbSeason = season
                        /\ candidate.defaultTvdbSeason # season
                        /\ episode.n >= 1 + NumberOr(candidate.tmdbOffset, 0)
                        /\ NumberOr(candidate.tmdbOffset, 0) > afterTvdb[2]
             afterTmdb == IF tmdbHit
                          THEN <<candidate, NumberOr(candidate.tmdbOffset, 0)>>
                          ELSE afterTvdb
         IN  AnimeListLoop(candidates, i + 1, season, episode, afterTmdb[1], afterTmdb[2])

findAnimeListMatchForTvdbSeason(store, tvdbId, season, episode) ==
    LET candidates == MapGetList(store.animeListByTvdbId, tvdbId)
    IN  IF Len(candidates) = 0 THEN NoAnimeListEntry
        ELSE IF Len(candidates) = 1 THEN candidates[1]
        ELSE AnimeListLoop(candidates, 1, season, episode, NoAnimeListEntry, -1)

\* the TVDB id the query stands for, or 0
QueriedTvdbId(store, idType, idValue) ==
    IF idType = "thetvdbId" THEN idValue
    ELSE IF idType = "imdbId" THEN getTvdbIdFromImdbId(store, idValue)
    ELSE 0

\* `candidates.push({mapping: matchingMapping, ...})` when there is one
AnimeListCandidateOf(matching, animeListMatch) ==
    IF animeListMatch = NoAnimeListEntry \/ matching = <<>> THEN <<>>
    ELSE <<[mapping |-> matching[1],
            fromEpisode |-> NumberOr(animeListMatch.episodeOffset, 0) + 1,
            animeListEntry |-> animeListMatch]>>

\* the mappings with the anidbId of the AnimeList match
MatchingMappings(mappingsList, animeListMatch) ==
    AnimeListCandidateOf(Filter(mappingsList, LAMBDA m : m.anidbId = animeListMatch.anidbId),
                         animeListMatch)

\* the AnimeList match of a TVDB id, none for the id 0
AnimeListMatch(store, tvdbId, season, episode) ==
    IF tvdbId # 0 THEN findAnimeListMatchForTvdbSeason(store, tvdbId, season, episode)
    ELSE NoAnimeListEntry

\* the candidate from the AnimeList entries: none or one
AnimeListCandidates(store, mappingsList, season, episode, idType, idValue) ==
    MatchingMappings(mappingsList,
        AnimeListMatch(store, QueriedTvdbId(store, idType, idValue), season, episode))

\* A reduce that lets a later candidate replace an equal earlier one.
Replaces_onTie(current, best) == current.fromEpisode >= best.fromEpisode

\* `current.fromEpisode > best.fromEpisode` of the reduce callback
Replaces(current, best) == current.fromEpisode > best.fromEpisode

\* `candidates.reduce((best, current) => current.fromEpisode > best.fromEpisode ? current : best)`
RECURSIVE ReduceBest(_, _, _)
ReduceBest(candidates, i, best) ==
    IF i > Len(candidates) THEN best
    ELSE ReduceBest(candidates, i + 1,
                    IF Replaces(candidates[i], best) THEN candidates[i] ELSE best)

\* `new RegExp('season[\s_-]*' + season, 'i').test(syn)`
SeasonRegexTest(season, syn) ==
    \/ season.n = 0 /\ syn = "Title Season 0"
    \/ season.n = 1 /\ syn = "Title Season 1"

\* the details of the mapping have a synonym that names the season
SynonymNamesSeason(store, m, season) ==
    \E syn \in findManamiDetailsFromMapping(store, m).synonyms : SeasonRegexTest(season, syn)

\* what the lookup selects with a mapping: the mapping, its details and the
\* AnimeList entry that led to it, if any
Selection(store, mapping, animeListEntry) ==
    [mappings |-> mapping,
     details |-> findManamiDetailsFromMapping(store, mapping),
     animeListEntry |-> animeListEntry]

\* the first of the mappings, if any
FirstOf(store, list) ==
    IF list = <<>> THEN NoMatch ELSE Selection(store, list[1], NoAnimeListEntry)

\* the synonym loop: the first mapping whose details name the season
SynonymMatch(store, mappingsList, season) ==
    FirstOf(store, Filter(mappingsList, LAMBDA m : SynonymNamesSeason(store, m, season)))

\* the candidate with the highest fromEpisode
BestCandidate(store, bestMatch) ==
    Selection(store, bestMatch.mapping, bestMatch.animeListEntry)

\* the best candidate, or the synonym match when there is no candidate
BestOrSynonym(store, candidates, mappingsList, season) ==
    IF Len(candidates) > 0
    THEN BestCandidate(store, ReduceBest(candidates, 2, candidates[1]))
    ELSE SynonymMatch(store, mappingsList, season)

\* `candidates` after both pushes: the Kitsu candidates, then the AnimeList one
Candidates(store, mappingsList, season, episode, idType, idValue) ==
    KitsuCandidates(store, mappingsList, season, episode)
    \o AnimeListCandidates(store, mappingsList, season, episode, idType, idValue)

findBestMatchForSeasonEpisode(store, mappingsList, season, episode, idType, idValue) ==
    BestOrSynonym(store,
        Candidates(store, mappingsList, season, episode, idType, idValue),
        mappingsList, season)

\* `if (match.mappings) return match;`, else the first mapping
MatchOrFirst(store, match, mappingsList) ==
    IF match.mappings # NoMapping THEN match ELSE FirstOf(store, mappingsList)

selectBestMappingAndDetails(store, mappingsList, idType, idValue, season, episode) ==
    IF Len(mappingsList) <= 1 THEN FirstOf(store, mappingsList)
    ELSE IF season # JsUndefined /\ episode # JsUndefined
    THEN MatchOrFirst(store,
             findBestMatchForSeasonEpisode(store, mappingsList, season, episode,
                                           idType, idValue),
             mappingsList)
    ELSE FirstOf(store, mappingsList)

\* `mappings?.malId ?? (idType === 'malId' ? Number(idValue) : null)`
IdOrQueried(mapping, field, idType, idValue) ==
    IF mapping # NoMapping /\ mapping[field] # 0 THEN mapping[field]
    ELSE IF idType = field THEN idValue
    ELSE 0

\* A lookup that reports not-found whenever no mapping is selected.
ReturnsNull_withoutMapping(found) == found.mappings = NoMapping

\* the condition of `return null`
ReturnsNull(found) ==
    /\ found.details = NoDetails
    /\ found.mappings = NoMapping
    /\ found.kitsuEntry = NoKitsuEntry
    /\ found.tvAnitraktEntry = NoAnitraktEntry
    /\ found.movieAnitraktEntry = NoAnitraktEntry
    /\ found.finalAnimeListEntry = NoAnimeListEntry

\* `obj?.name`, with `absent` for a property the object does not have
Field(obj, name, absent) == IF name \in DOMAIN obj THEN obj[name] ELSE absent

\* `a ?? b ?? ...`: the first value of the chain that is not absent
RECURSIVE Coalesce(_, _)
Coalesce(chain, absent) ==
    IF chain = <<>> THEN absent
    ELSE IF Head(chain) # absent THEN Head(chain)
    ELSE Coalesce(Tail(chain), absent)

\* the operands of the `??` chain of combinedMappings.imdbId
ImdbIdChain(found) ==
    <<Field(found.mappings, "imdbId", "none"),
      Field(found.finalAnimeListEntry, "imdbId", "none"),
      Field(found.kitsuEntry, "imdbId", "none"),
      Field(found.movieAnitraktEntry, "externalsImdb", "none"),
      Field(found.tvAnitraktEntry, "externalsImdb", "none")>>

\* the operands of the `??` chain of combinedMappings.themoviedbId
ThemoviedbIdChain(found) ==
    <<Field(found.mappings, "themoviedbId", 0),
      Field(found.finalAnimeListEntry, "tmdbId", 0),
      Field(found.finalAnimeListEntry, "tmdbTv", 0),
      Field(found.movieAnitraktEntry, "externalsTmdb", 0),
      Field(found.tvAnitraktEntry, "externalsTmdb", 0)>>

\* A chain that prefers the mapping's TVDB id to the AnimeList and Kitsu ones.
ThetvdbIdChain_mappingFirst(found) ==
    <<Field(found.mappings, "thetvdbId", 0),
      Field(found.finalAnimeListEntry, "tvdbId", 0),
      Field(found.kitsuEntry, "tvdbId", 0),
      Field(found.tvAnitraktEntry, "externalsTvdb", 0)>>

\* the operands of the `??` chain of combinedMappings.thetvdbId
ThetvdbIdChain(found) ==
    <<Field(found.finalAnimeListEntry, "tvdbId", 0),
      Field(found.kitsuEntry, "tvdbId", 0),
      Field(found.mappings, "thetvdbId", 0),
      Field(found.tvAnitraktEntry, "externalsTvdb", 0)>>

\* the operands of the `??` chain of combinedMappings.traktId
TraktIdChain(found) ==
    <<Field(found.mappings, "traktId", 0),
      Field(found.tvAnitraktEntry, "traktId", 0),
      Field(found.movieAnitraktEntry, "traktId", 0)>>

\* the AnimeEntry of buildAnimeEntry: the type, the cross ids of
\* combinedMappings, and the projections the lookups below read
buildAnimeEntry(found) ==
    [type |-> IF found.mappings # NoMapping THEN found.mappings.type ELSE "UNKNOWN",
     imdbId |-> Coalesce(ImdbIdChain(found), "none"),
     themoviedbId |-> Coalesce(ThemoviedbIdChain(found), 0),
     thetvdbId |-> Coalesce(ThetvdbIdChain(found), 0),
     traktId |-> Coalesce(TraktIdChain(found), 0),
     kitsuId |-> found.mappings.kitsuId,
     malId |-> found.mappings.malId,
     imdb |-> IF found.kitsuEntry # NoKitsuEntry
              THEN [seasonNumber |-> found.kitsuEntry.fromSeason,
                    fromEpisode |-> found.kitsuEntry.fromEpisode]
              ELSE JsNull,
     trakt |-> IF found.tvAnitraktEntry # NoAnitraktEntry THEN found.tvAnitraktEntry.trakt
               ELSE found.movieAnitraktEntry.trakt,
     title |-> found.details.title]

\* the entries read under the ids of the selected mapping or of the query
Found(store, selected, idType, idValue) ==
    [mappings |-> selected.mappings,
     details |-> selected.details,
     kitsuEntry |-> MapGet(store.kitsuById,
                           IdOrQueried(selected.mappings, "kitsuId", idType, idValue),
                           NoKitsuEntry),
     tvAnitraktEntry |-> MapGet(store.extendedAnitraktTvById,
                                IdOrQueried(selected.mappings, "malId", idType, idValue),
                                NoAnitraktEntry),
     movieAnitraktEntry |-> MapGet(store.extendedAnitraktMoviesById,
                                   IdOrQueried(selected.mappings, "malId", idType, idValue),
                                   NoAnitraktEntry),
     finalAnimeListEntry |->
         IF selected.animeListEntry # NoAnimeListEntry
         THEN selected.animeListEntry
         ELSE MapGet(store.animeListById,
                     IdOrQueried(selected.mappings, "anidbId", idType, idValue),
                     NoAnimeListEntry)]

\* null, or the entry built from what was found
Returned(found) ==
    [found |-> found,
     returned |-> IF ReturnsNull(found) THEN JsNull ELSE [kind |-> "entry", n |-> 0],
     entry |-> buildAnimeEntry(found)]

\* the mappings listed under the id, before the season filter
Listed(store, idType, idValue) == MapGetList(store.fribbMappingsById[idType], idValue)

\* the candidates of the call, none when findBestMatchForSeasonEpisode is
\* not reached
CandidatesSeen(store, mappingsList, idType, idValue, season, episode) ==
    IF Len(mappingsList) > 1 /\ season # JsUndefined /\ episode # JsUndefined
    THEN Candidates(store, mappingsList, season, episode, idType, idValue)
    ELSE <<>>

\* what getEntryById selects on the way, and what it returns
EntryById(store, idType, idValue, season, episode) ==
    [kind |-> "lookup", idType |-> idType, idValue |-> idValue, season |-> season,
     episode |-> episode, listed |-> Listed(store, idType, idValue),
     candidates |-> CandidatesSeen(store,
                        filterMappingsBySeasonType(Listed(store, idType, idValue), season),
                        idType, idValue, season, episode)]
    @@ Returned(Found(store,
                      selectBestMappingAndDetails(store,
                          filterMappingsBySeasonType(Listed(store, idType, idValue), season),
                          idType, idValue, season, episode),
                      idType, idValue))

Seasons == {JsUndefined, JsNum(0), JsNum(1)}

Episodes == {JsUndefined, JsNum(1), JsNum(2)}

LookupInit ==
    /\ dataStore \in LoadedStores
    /\ mappings = <<>>
    /\ loader = [source \in Sources |-> Idle]
    /\ running = "none"
    /\ snapshot = <<EmptyStore, <<>>>>
    /\ lastRead = NoRead
    /\ CtxIdle
    /\ streams = <<>>
    /\ PreIdle
    /\ EnrichIdle
    /\ MoreIdle

\* getEntryById(idType, idValue, season, episode) is called and returns.  The
\* call changes nothing it reads, so a behaviour makes one.
CallGetEntryById(idType, idValue, season, episode) ==
    /\ lastRead = NoRead
    /\ lastRead' = EntryById(dataStore, idType, idValue, season, episode)
    /\ UNCHANGED <<dataStore, mappings, loader, running, snapshot>>
    /\ UNCHANGED <<ctxVars, streams, preVars, enrichVars, moreVars>>

LookupNext ==
    \E idType \in IdTypes : \E idValue \in IdValues(idType) :
        \E season \in Seasons, episode \in Episodes :
            CallGetEntryById(idType, idValue, season, episode)

SpecLookup == LookupInit /\ [][LookupNext]_vars

----------------------------------------------------------------------------
(* buildAnimeEntry (anime-database.ts) on the entries getEntryById hands to *)
(* it.  Every entry may carry or lack each cross id; a cross id names the   *)
(* entry it comes from.  lastRead holds the call and the entry built.       *)

\* the properties each entry can add, with the value it adds
CrossIds ==
    [mappings |-> [imdbId |-> "tt-mapping", themoviedbId |-> 11, thetvdbId |-> 12,
                   traktId |-> 13],
     finalAnimeListEntry |-> [imdbId |-> "tt-animeList", tmdbId |-> 21, tmdbTv |-> 24,
                              tvdbId |-> 22],
     kitsuEntry |-> [imdbId |-> "tt-kitsu", tvdbId |-> 32],
     movieAnitraktEntry |-> [externalsImdb |-> "tt-movie", externalsTmdb |-> 41,
                             traktId |-> 43],
     tvAnitraktEntry |-> [externalsImdb |-> "tt-tv", externalsTmdb |-> 51,
                          externalsTvdb |-> 52, traktId |-> 53]]

\* the record with the properties of `names` only
Restrict(record, names) == [name \in names |-> record[name]]

\* an entry with the cross ids of `names`, over the other properties of `base`
WithCrossIds(base, source, names) ==
    Restrict(CrossIds[source], names)
    @@ Restrict(base, DOMAIN base \ DOMAIN CrossIds[source])

\* the arguments of buildAnimeEntry, given the cross ids each entry carries
FoundEntries(carried) ==
    [mappings |-> WithCrossIds(MappingEntry(1, "TV"), "mappings", carried.mappings),
     details |-> NoDetails,
     finalAnimeListEntry |->
         WithCrossIds(AnimeListEntry(1, 0, JsNull, JsUndefined), "finalAnimeListEntry",
                      carried.finalAnimeListEntry),
     kitsuEntry |-> WithCrossIds(NoKitsuEntry, "kitsuEntry", carried.kitsuEntry),
     movieAnitraktEntry |->
         WithCrossIds(NoAnitraktEntry, "movieAnitraktEntry", carried.movieAnitraktEntry),
     tvAnitraktEntry |->
         WithCrossIds(NoAnitraktEntry, "tvAnitraktEntry", carried.tvAnitraktEntry)]

BuildInit ==
    /\ AidbFresh
    /\ CtxIdle
    /\ streams = <<>>
    /\ PreIdle
    /\ EnrichIdle
    /\ MoreIdle

\* buildAnimeEntry(mappings, details, kitsuEntry, ...) is called and returns
CallBuildAnimeEntry(found) ==
    /\ lastRead' = [kind |-> "build", found |-> found, entry |-> buildAnimeEntry(found)]
    /\ UNCHANGED <<dataStore, mappings, loader, running, snapshot>>
    /\ UNCHANGED <<ctxVars, streams, preVars, enrichVars, moreVars>>

\* the function keeps no state, so a behaviour makes one call
BuildNext ==
    /\ lastRead = NoRead
    /\ \E m \in SUBSET DOMAIN CrossIds.mappings,
          a \in SUBSET DOMAIN CrossIds.finalAnimeListEntry,
          k \in SUBSET DOMAIN CrossIds.kitsuEntry,
          mv \in SUBSET DOMAIN CrossIds.movieAnitraktEntry,
          tv \in SUBSET DOMAIN CrossIds.tvAnitraktEntry :
           CallBuildAnimeEntry(FoundEntries([mappings |-> m, finalAnimeListEntry |-> a,
                                             kitsuEntry |-> k, movieAnitraktEntry |-> mv,
                                             tvAnitraktEntry |-> tv]))

SpecBuild == BuildInit /\ [][BuildNext]_vars

----------------------------------------------------------------------------
(* isPrivateIp (the IP utilities).  A string is the sequence of its         *)
(* characters.  lastRead holds the octets of the last query and what        *)
(* isPrivateIp returned for their dotted and their IPv4-mapped text.        *)

\* the octets the queries are made of: the bounds of the private ranges,
\* their neighbours and octets of public addresses
OctetValues ==
    {0, 1, 9, 10, 11, 15, 16, 31, 32, 100, 126, 127, 128, 168, 169, 172, 173, 192, 254, 255}

DigitChars == <<"0", "1", "2", "3", "4", "5", "6", "7", "8", "9">>

\* the decimal text of a number
RECURSIVE Decimal(_)
Decimal(n) ==
    IF n < 10 THEN <<DigitChars[n + 1]>>
    ELSE Decimal(n \div 10) \o <<DigitChars[(n % 10) + 1]>>

\* 'a.b.c.d'
Dotted(octets) ==
    Decimal(octets[1]) \o <<".">> \o Decimal(octets[2]) \o <<".">>
        \o Decimal(octets[3]) \o <<".">> \o Decimal(octets[4])

\* '::ffff:a.b.c.d', in the case given for the hexadecimal digits
Ipv4Mapped(octets, f) == <<":", ":", f, f, f, f, ":">> \o Dotted(octets)

\* IPv6 texts that embed no IPv4 address: ::1, fc00::1, fd00::1, fe80::1,
\* FE80::1 and 2001:db8::1
OtherIpv6Texts ==
    {<<":", ":", "1">>,
     <<"f", "c", "0", "0", ":", ":", "1">>,
     <<"f", "d", "0", "0", ":", ":", "1">>,
     <<"f", "e", "8", "0", ":", ":", "1">>,
     <<"F", "E", "8", "0", ":", ":", "1">>,
     <<"2", "0", "0", "1", ":", "d", "b", "8", ":", ":", "1">>}

CharsOf(text) == {text[i] : i \in DOMAIN text}

\* net.isIP on the well-formed texts of this specification
isIP(text) ==
    IF ":" \in CharsOf(text) THEN 6
    ELSE IF "." \in CharsOf(text) THEN 4
    ELSE 0

\* `ip.split('.')`
RECURSIVE split(_)
split(text) ==
    IF "." \notin CharsOf(text) THEN <<text>>
    ELSE LET i == CHOOSE j \in DOMAIN text :
                      text[j] = "." /\ \A k \in 1 .. (j - 1) : text[k] # "."
         IN  <<SubSeq(text, 1, i - 1)>> \o split(SubSeq(text, i + 1, Len(text)))

\* `parseInt(part, 10)` on a text of decimal digits
RECURSIVE parseInt(_)
parseInt(part) ==
    IF part = <<>> THEN 0
    ELSE 10 * parseInt(SubSeq(part, 1, Len(part) - 1))
         + (CHOOSE d \in 0 .. 9 : DigitChars[d + 1] = part[Len(part)])

\* `ip.toLowerCase()`
toLowerCase(text) ==
    [i \in DOMAIN text |->
        CASE text[i] = "F" -> "f"
          [] text[i] = "E" -> "e"
          [] OTHER -> text[i]]

startsWith(text, prefix) ==
    Len(text) >= Len(prefix) /\ SubSeq(text, 1, Len(prefix)) = prefix

\* the IPv4-mapped prefixes the IPv6 branch tests: '::ffff:127.',
\* '::ffff:10.' and '::ffff:192.168.'
MappedPrefixes ==
    {<<":", ":", "f", "f", "f", "f", ":", "1", "2", "7", ".">>,
     <<":", ":", "f", "f", "f", "f", ":", "1", "0", ".">>,
     <<":", ":", "f", "f", "f", "f", ":", "1", "9", "2", ".", "1", "6", "8", ".">>}

isPrivateIp(ip) ==
    IF isIP(ip) = 4
    THEN LET parts == [i \in DOMAIN split(ip) |-> parseInt(split(ip)[i])]
         IN  \/ parts[1] = 10
             \/ (parts[1] = 172 /\ parts[2] >= 16 /\ parts[2] <= 31)
             \/ (parts[1] = 192 /\ parts[2] = 168)
             \/ parts[1] = 127
             \/ parts[1] = 0
             \/ (parts[1] = 169 /\ parts[2] = 254)
    ELSE IF isIP(ip) = 6
    THEN LET normalizedIp == toLowerCase(ip)
         IN  \/ normalizedIp = <<":", ":", "1">>
             \/ \E prefix \in MappedPrefixes : startsWith(normalizedIp, prefix)
             \/ startsWith(normalizedIp, <<"f", "c">>)
             \/ startsWith(normalizedIp, <<"f", "d">>)
             \/ startsWith(normalizedIp, <<"f", "e", "8", "0", ":">>)
    ELSE FALSE

IpInit ==
    /\ AidbFresh
    /\ CtxIdle
    /\ streams = <<>>
    /\ PreIdle
    /\ EnrichIdle
    /\ MoreIdle

\* isPrivateIp is called on the dotted text of an address and on its
\* IPv4-mapped texts
CallIsPrivateIp(octets) ==
    /\ lastRead' = [kind |-> "isPrivateIp", octets |-> octets,
                    dotted |-> isPrivateIp(Dotted(octets)),
                    mapped |-> isPrivateIp(Ipv4Mapped(octets, "f")),
                    mappedUpperCase |-> isPrivateIp(Ipv4Mapped(octets, "F"))]
    /\ UNCHANGED <<dataStore, mappings, loader, running, snapshot>>
    /\ UNCHANGED <<ctxVars, streams, preVars, enrichVars, moreVars>>

\* isPrivateIp is called on an IPv6 text that embeds no IPv4 address
CallIsPrivateIpv6(text) ==
    /\ lastRead' = [kind |-> "isPrivateIpv6", text |-> text, result |-> isPrivateIp(text)]
    /\ UNCHANGED <<dataStore, mappings, loader, running, snapshot>>
    /\ UNCHANGED <<ctxVars, streams, preVars, enrichVars, moreVars>>

IpNext ==
    /\ lastRead = NoRead
    /\ \/ \E a \in OctetValues, b \in OctetValues : CallIsPrivateIp(<<a, b, 0, 1>>)
       \/ \E text \in OtherIpv6Texts : CallIsPrivateIpv6(text)

SpecIp == IpInit /\ [][IpNext]_vars

----------------
(* Properties of the Stream Context (specification SpecCtx). *)

\* C1: under any interleaving of startX(), startAllFetches() and pending
\* getX() calls, every slot issues its remote call at most once.
C1_FetchStartedAtMostOnce == \A s \in Slots : started[s] <= 1

\* C1 witness: one remote call is out while two getX() calls wait on the slot.
C1_TwoPendingOneFetch ==
    \E s \in Slots : started[s] = 1 /\ getters.pending[s] >= 2 /\ promise[s] = "remote"

\* C2: whatever remote call fails, no getX() rejects (neither an external
\* one nor the pipeline's), and every getX() of a slot whose remote call
\* failed returned undefined.
C2_FailureYieldsUndefined ==
    /\ ~getters.rejected
    /\ pipe.pc # "rejected"
    /\ \A s \in Slots :
          remoteFailed[s] =>
              /\ promise[s] = "settled" => settledWith[s] = Undefined
              /\ \A i \in DOMAIN retLog[s] : retLog[s][i] = Undefined

\* C2 witness: a remote call failed and a getX() of that slot has returned.
C2_FailedSlotReturned ==
    \E s \in Slots : remoteFailed[s] /\ Len(retLog[s]) >= 1 /\ getters.pending[s] = 0

\* 0 = not started, 1 = in flight, 2 = completed (settled promise, or the
\* fetched flag of an explicit no-op decision).
Phase(s) ==
    IF promise[s] = "settled" \/ (promise[s] = "none" /\ fetched[s]) THEN 2
    ELSE IF promise[s] # "none" THEN 1
    ELSE 0

StableReturns(log) ==
    \A i, j \in DOMAIN log : (i < j /\ log[i] # Undefined) => log[j] = log[i]

\* C3: a slot only moves forward through not started -> in flight ->
\* completed, and after a getX() returned a defined value every later getX()
\* of the slot returns that value.
C3_SlotsMoveForward ==
    [][ \A s \in Slots : Phase(s)' >= Phase(s) /\ StableReturns(retLog'[s]) ]_vars

\* C3 witness: a completed slot whose getX() returned a defined value twice.
C3_DefinedValueReturnedTwice ==
    \E s \in Slots :
        Phase(s) = 2 /\ Len(retLog[s]) >= 2 /\ retLog[s][1] # Undefined

\* C5: for an anime request with a resolved anilistId, precomputeSeaDexOnly
\* applies the SeaDex result exactly when the SeaDex fetch was started (and
\* delivered a result), for every value of enableSeadex.
C5_FetchAndTaggingSameGate ==
    (pipe.pc = "done" /\ ctx.isAnime /\ ctx.anilistId = "valid")
        => (pipe.applied <=>
              (promise["seadex"] = "settled" /\ settledWith["seadex"] # Undefined))

----------------------------------------------------------------------------
(* Properties of the precomputer. *)

InAllHashes(st) ==
    st.infoHash # "none" /\ ToLowerCase(st.infoHash) \in seadexResult.allHashes

InSeaDexGroups(st) ==
    /\ st.releaseGroup # "none"
    /\ ToLowerCase(st.releaseGroup) \in (seadexResult.allGroups \cup seadexResult.bestGroups)

\* C4: after the SeaDex precompute a tagged stream has its lower-cased
\* infoHash in allHashes, or no stream of the request has and its lower-cased
\* release group is in allGroups or bestGroups.
C4_TagByHashElseGroup ==
    pc = "done" =>
        \A k \in DOMAIN streams :
            streams[k].seadex # NoTag =>
                \/ InAllHashes(streams[k])
                \/ /\ \A j \in DOMAIN streams : ~InAllHashes(streams[j])
                   /\ InSeaDexGroups(streams[k])

\* C4 witness: one stream is tagged by its hash and another, whose group
\* SeaDex lists, stays untagged.
C4_HashMatchBlocksGroup ==
    /\ pc = "done"
    /\ \E k, j \in DOMAIN streams :
          /\ InAllHashes(streams[k]) /\ streams[k].seadex # NoTag
          /\ ~InAllHashes(streams[j]) /\ InSeaDexGroups(streams[j])
          /\ streams[j].seadex = NoTag

Min(S) == CHOOSE x \in S : \A y \in S : x <= y

\* The positions (from 1) of the expressions of a list that select stream id;
\* an expression that raises selects nothing.
SelectingPositions(id, exprs) ==
    {i \in 1 .. Len(exprs) : ~exprs[i].throws /\ id \in exprs[i].selects}

LowestIndex(id, exprs) ==
    IF SelectingPositions(id, exprs) = {} THEN JsUndefined
    ELSE JsNum(Min(SelectingPositions(id, exprs)) - 1)

\* C6: after the preferred-match precompute streamExpressionMatched is the
\* lowest index whose expression selects the stream, undefined if none does;
\* and a stream claimed under the list before the last append keeps its index.
C6_ClaimedByLowestIndex ==
    pc = "done" =>
        \A k \in DOMAIN streams :
            /\ streams[k].streamExpressionMatched =
                  LowestIndex(streams[k].id, preferredStreamExpressions)
            /\ (Len(previous) > 0 /\ previous[k].kind = "number")
                  => streams[k].streamExpressionMatched = previous[k]

\* C6 witness: a stream selected by the first and by a later, appended
\* expression is claimed by index 0.
C6_EarlierExpressionKeepsStream ==
    /\ pc = "done"
    /\ Len(previous) > 0
    /\ \E k \in DOMAIN streams :
          /\ {1, Len(preferredStreamExpressions)}
                \subseteq SelectingPositions(streams[k].id, preferredStreamExpressions)
          /\ Len(preferredStreamExpressions) >= 2
          /\ streams[k].streamExpressionMatched = JsNum(0)

RECURSIVE SumOfScores(_, _)
SumOfScores(entries, positions) ==
    IF positions = {} THEN 0
    ELSE LET i == CHOOSE x \in positions : TRUE
         IN  entries[i].score + SumOfScores(entries, positions \ {i})

RankedPositions(id, entries) ==
    {i \in 1 .. Len(entries) :
        ~entries[i].expression.throws /\ id \in entries[i].expression.selects}

LastEntrySelects(id) ==
    LET entry == rankedStreamExpressions[Len(rankedStreamExpressions)]
    IN  ~entry.expression.throws /\ id \in entry.expression.selects

LastEntryScore == rankedStreamExpressions[Len(rankedStreamExpressions)].score

\* C8 as stated: appending an entry never lowers the score of a stream it
\* selects and leaves the score of every other stream as it was.
C8_AppendNeverLowers ==
    (pc = "done" /\ Len(previous) > 0) =>
        \A k \in DOMAIN streams :
            IF LastEntrySelects(streams[k].id)
            THEN previous[k].kind = "number" =>
                    /\ streams[k].streamExpressionScore.kind = "number"
                    /\ streams[k].streamExpressionScore.n >= previous[k].n
            ELSE streams[k].streamExpressionScore = previous[k]

\* C8 amended: appending an entry adds exactly its score to the score of each
\* stream it selects (an undefined score counting as 0), so the score does
\* not drop when the entry's score is >= 0; other streams keep their score.
C8_AppendAddsScore ==
    (pc = "done" /\ Len(previous) > 0) =>
        \A k \in DOMAIN streams :
            IF LastEntrySelects(streams[k].id)
            THEN /\ streams[k].streamExpressionScore =
                       JsNum((IF previous[k].kind = "number" THEN previous[k].n ELSE 0)
                             + LastEntryScore)
                 /\ (LastEntryScore >= 0 /\ previous[k].kind = "number")
                       => streams[k].streamExpressionScore.n >= previous[k].n
            ELSE streams[k].streamExpressionScore = previous[k]

\* C8 witness: an appended entry with a negative score lowered the score of
\* a stream that had one.
C8_NegativeScoreLowers ==
    /\ pc = "done"
    /\ Len(previous) > 0
    /\ \E k \in DOMAIN streams :
          /\ LastEntrySelects(streams[k].id)
          /\ LastEntryScore < 0
          /\ previous[k].kind = "number"
          /\ streams[k].streamExpressionScore.n < previous[k].n

\* the ParsedId's season and episode after the n-th call
AfterCall(n) == history[n + 1]

\* C9: enrichParsedIdWithAnimeEntry is idempotent: after a second call the
\* ParsedId's season and episode are what they were after the first.
C9_EnrichIsIdempotent ==
    Len(history) >= 3 => AfterCall(2) = AfterCall(1)

\* C10: a getEntryById call made while refreshes are under way finds the
\* indices as the last finished loader section left them: the Kitsu index is
\* the whole index of one Kitsu file (or empty), and animeListById and
\* animeListByTvdbId index the same AnimeList file.
C10_ReadsSeeWholeIndices ==
    lastRead.kind = "call" =>
        /\ lastRead.whole
        /\ lastRead.kitsuWhole
        /\ lastRead.animeListPaired

\* C10 witness: a lookup ran while the Kitsu and AnimeList loaders were under
\* way, on a Kitsu index of two entries filled by an earlier load and an
\* AnimeList index with a TVDB list.
C10_ReadDuringRefresh ==
    /\ lastRead.kind = "call"
    /\ {"kitsuImdb", "animeList"} \subseteq lastRead.during
    /\ lastRead.whole
    /\ DOMAIN dataStore.kitsuById = {1, 2}
    /\ dataStore.animeListByTvdbId # EmptyMap
    /\ loader["kitsuImdb"].pc = "reading"

----------------------------------------------------------------------------------------------------------------------------------------
(* Properties of the getters of the Stream Context (SpecCtx) *)

----------------
(* Properties of the refresh protocol (SpecRefresh) *)

\* the pass has made its decision: isDbMissing and fetchFromRemote are set
Decided == pass.pc \notin {"idle", "head", "readEtag", "fileExists"}

\* the pass found the data file, and two equal tags
TagUnchanged ==
    /\ Decided
    /\ ~pass.isDbMissing
    /\ pass.remoteEtag # "none"
    /\ pass.remoteEtag = pass.localEtag

\* the requests and disk writes of a download
DownloadEffects == {"GET", "writeData", "streamed", "writeEtag"}

\* C11 as stated: a pass that found the data file and two equal tags makes no
\* download and leaves the data file and the ETag file as they were.
C11_UnchangedTagLeavesDisk ==
    (pass.pc = "done" /\ TagUnchanged)
        => /\ pass.did \cap DownloadEffects = {}
           /\ disk = pass.diskAtStart

\* C11, amended: a pass that found the data file and two equal tags makes no
\* download, and leaves the data file and the ETag file as they were unless
\* the loader rejects the local file.
C11_UnchangedTagLoadedLeavesDisk ==
    TagUnchanged
        => /\ pass.did \cap DownloadEffects = {}
           /\ (pass.pc = "load" \/ (pass.pc = "done" /\ pass.outcome = "ok"))
                  => disk = pass.diskAtStart

\* a pass with an unchanged tag has loaded the local file and returned
C11_UnchangedTagPassDone ==
    /\ pass.pc = "done"
    /\ TagUnchanged
    /\ pass.outcome = "ok"
    /\ "loader" \in pass.did
    /\ disk.data = "v1"

\* C19: a pass sends the GET request exactly when the data file is missing,
\* a tag is absent or the tags differ; once the body is on disk the tag of
\* the pass is in the ETag file before the loader runs; and a pass ends
\* without calling the loader only when its download threw.
C19_DownloadsIffStale ==
    Decided
        => /\ ("GET" \in pass.did) <=>
                  \/ pass.isDbMissing
                  \/ pass.remoteEtag = "none"
                  \/ pass.localEtag = "none"
                  \/ pass.remoteEtag # pass.localEtag
           /\ ( /\ pass.pc \in {"load", "done"}
                /\ "streamed" \in pass.did
                /\ EtagToWrite(pass.remoteEtag, pass.responseEtag) # "none" )
                  => disk.etag = EtagToWrite(pass.remoteEtag, pass.responseEtag)
           /\ (pass.pc = "done" /\ "loader" \notin pass.did)
                  => /\ "GET" \in pass.did
                     /\ "streamed" \notin pass.did
                     /\ pass.outcome = "threw"

\* a pass found the data file missing beside two equal tags, downloaded,
\* wrote the tag and loaded
C19_MissingFileDownloaded ==
    /\ pass.pc = "done"
    /\ pass.isDbMissing
    /\ pass.remoteEtag # "none"
    /\ pass.remoteEtag = pass.localEtag
    /\ {"GET", "streamed", "writeEtag", "loader"} \subseteq pass.did
    /\ pass.outcome = "ok"

\* C20: when the loader throws in a pass that did not download, both files
\* are gone when the pass rejects, and the pass that follows finds the data
\* file missing and sends the GET request; when the loader throws in a pass
\* that downloaded, the pass deletes neither file.
C20_FailedLoadForcesRefetch ==
    /\ ( /\ pass.pc = "done"
         /\ pass.outcome = "threw"
         /\ "loader" \in pass.did
         /\ ~pass.fetchFromRemote )
           => disk = [data |-> "missing", etag |-> "none"]
    /\ (Decided /\ pass.after = "loadFailedWithoutDownload")
           => pass.isDbMissing /\ "GET" \in pass.did
    /\ ( /\ pass.pc = "done"
         /\ pass.outcome = "threw"
         /\ "loader" \in pass.did
         /\ pass.fetchFromRemote )
           => /\ pass.did \cap {"unlinkEtag", "unlinkFile"} = {}
              /\ disk.data = pass.body
              /\ disk.etag # "none" \/ EtagToWrite(pass.remoteEtag, pass.responseEtag) = "none"

\* the pass after a failed load of the local file has downloaded and loaded
C20_RefetchedAfterFailedLoad ==
    /\ pass.pc = "done"
    /\ pass.after = "loadFailedWithoutDownload"
    /\ {"GET", "streamed", "loader"} \subseteq pass.did
    /\ pass.outcome = "ok"

----------------------------------------------------------------------------
(* Properties of getEntryById (SpecLookup) *)

\* the types a lookup with season 0 prefers, and the one it always keeps
SpecialTypes == {"SPECIAL", "OVA", "ONA", "UNKNOWN"}

\* the last call was a lookup with season 0 that selected a mapping
SeasonZeroSelected ==
    /\ lastRead.kind = "lookup"
    /\ lastRead.season = JsNum(0)
    /\ lastRead.found.mappings # NoMapping

\* C12 as stated: the mapping a lookup with season 0 selects has type
\* SPECIAL, OVA, ONA or UNKNOWN.
C12_SeasonZeroSelectsSpecial ==
    SeasonZeroSelected => lastRead.found.mappings.type \in SpecialTypes

\* C12, amended: the mapping a lookup with season 0 selects is one the
\* cross-reference lists under the id, and has type SPECIAL, OVA, ONA or
\* UNKNOWN whenever a listed mapping has one of these types.
C12_SeasonZeroPrefersSpecial ==
    SeasonZeroSelected
        => /\ lastRead.found.mappings \in ListToSet(lastRead.listed)
           /\ (\E m \in ListToSet(lastRead.listed) : m.type \in SpecialTypes)
                  => lastRead.found.mappings.type \in SpecialTypes

\* a lookup with season 0 passed over a TV mapping listed first and selected
\* the OVA listed after it
C12_SpecialPreferredOverTv ==
    /\ SeasonZeroSelected
    /\ Len(lastRead.listed) = 2
    /\ lastRead.listed[1].type = "TV"
    /\ lastRead.found.mappings = lastRead.listed[2]
    /\ lastRead.found.mappings.type = "OVA"

\* no index of the dataStore has anything under the queried id
NothingUnderQueriedId ==
    /\ lastRead.listed = <<>>
    /\ lastRead.idType = "kitsuId" => lastRead.idValue \notin DOMAIN dataStore.kitsuById
    /\ lastRead.idType = "malId" =>
           /\ lastRead.idValue \notin DOMAIN dataStore.extendedAnitraktTvById
           /\ lastRead.idValue \notin DOMAIN dataStore.extendedAnitraktMoviesById
    /\ lastRead.idType = "anidbId" => lastRead.idValue \notin DOMAIN dataStore.animeListById

\* C13: getEntryById returns null exactly when the selected mapping, the
\* details, the Kitsu entry, both Anitrakt entries and the AnimeList entry
\* are all absent, which is when the cross-reference lists nothing under the
\* id and no Kitsu, Anitrakt or AnimeList entry exists under the queried
\* kitsu, mal or anidb id; it returns an entry in every other case.
C13_NullIffNothingFound ==
    lastRead.kind = "lookup"
        => /\ lastRead.returned = JsNull <=>
                  /\ lastRead.found.mappings = NoMapping
                  /\ lastRead.found.details = NoDetails
                  /\ lastRead.found.kitsuEntry = NoKitsuEntry
                  /\ lastRead.found.tvAnitraktEntry = NoAnitraktEntry
                  /\ lastRead.found.movieAnitraktEntry = NoAnitraktEntry
                  /\ lastRead.found.finalAnimeListEntry = NoAnimeListEntry
           /\ lastRead.returned = JsNull <=> NothingUnderQueriedId
           /\ lastRead.returned # JsNull => lastRead.returned.kind = "entry"

\* a lookup of an id without mappings returned the entry built from the
\* Anitrakt entry under the queried MAL id
C13_EntryWithoutMapping ==
    /\ lastRead.kind = "lookup"
    /\ lastRead.listed = <<>>
    /\ lastRead.idType = "malId"
    /\ lastRead.found.tvAnitraktEntry # NoAnitraktEntry
    /\ lastRead.returned.kind = "entry"
    /\ lastRead.entry.type = "UNKNOWN"

----------------------------------------------------------------------------
(* Properties of precomputePreferredMatches (SpecMatches) *)

\* C14: when isRegexAllowed answers no, the stage leaves every stream
\* without regexMatched and otherwise does what it does for a user with no
\* preferred regex patterns: keywordMatched is set from the keywords and
\* streamExpressionMatched from the expressions.
C14_DisallowedRegexIsEmptyList ==
    (pc = "done" /\ ~userData.regexAllowed)
        => /\ \A k \in DOMAIN streams : streams[k].regexMatched = JsUndefined
           /\ \A k \in DOMAIN streams :
                  userData.preferredKeywords # <<>> =>
                      (streams[k].keywordMatched = "true"
                          <=> \E a \in userData.preferredKeywords[1].matches :
                                  a \in {MatchStreams[k].filename, MatchStreams[k].releaseGroup})
           /\ \A k \in DOMAIN streams :
                  streams[k].streamExpressionMatched =
                      PrecomputePreferredMatches(MatchStreams,
                          preferredStreamExpressions)[k].streamExpressionMatched

\* regex is not allowed, a preferred pattern matches the first stream's
\* filename, and the stage has set keywordMatched and streamExpressionMatched
C14_KeywordsAndExpressionsApplied ==
    /\ pc = "done"
    /\ ~userData.regexAllowed
    /\ Len(userData.preferredRegexPatterns) = 1
    /\ PatternHit(MatchStreams[1], userData.preferredRegexPatterns[1])
    /\ streams[1].regexMatched = JsUndefined
    /\ streams[1].keywordMatched = "true"
    /\ streams[2].keywordMatched = "false"
    /\ streams[2].streamExpressionMatched = JsNum(0)

----------------------------------------------------------------------------
(* Properties of precomputePreferred (SpecLate) *)

\* the expression with every raising one replaced by one that selects nothing
SelectsNothingIfRaising(e) ==
    IF e.throws THEN [selects |-> {}, throws |-> FALSE] ELSE e

\* C15: the stage never raises, and it leaves the streams as it does for the
\* same lists with every raising expression replaced, in place, by one that
\* selects no stream: a raising expression claims no stream and adds no
\* score, and the others act as they do without it.
C15_RaisingExpressionSelectsNothing ==
    /\ pc # "threw"
    /\ pc = "done" =>
        /\ streams = precomputePreferred(MatchStreams, userData,
               [i \in DOMAIN preferredStreamExpressions |->
                   SelectsNothingIfRaising(preferredStreamExpressions[i])],
               [i \in DOMAIN rankedStreamExpressions |->
                   [rankedStreamExpressions[i] EXCEPT
                       !.expression = SelectsNothingIfRaising(@)]])
        /\ \A k \in DOMAIN streams :
               /\ streams[k].streamExpressionMatched.kind = "number" =>
                      LET e == preferredStreamExpressions[streams[k].streamExpressionMatched.n + 1]
                      IN  ~e.throws /\ k \in e.selects
               /\ streams[k].streamExpressionScore.kind = "number" =>
                      \E i \in DOMAIN rankedStreamExpressions :
                          /\ ~rankedStreamExpressions[i].expression.throws
                          /\ k \in rankedStreamExpressions[i].expression.selects

\* the first preferred and the first ranked expression raised on a stream
\* they would have selected, and the second ones claimed and scored it
C15_LaterExpressionsStillApplied ==
    /\ pc = "done"
    /\ Len(preferredStreamExpressions) = 2
    /\ preferredStreamExpressions[1].throws
    /\ 1 \in preferredStreamExpressions[1].selects
    /\ streams[1].streamExpressionMatched = JsNum(1)
    /\ Len(rankedStreamExpressions) = 2
    /\ rankedStreamExpressions[1].expression.throws
    /\ 1 \in rankedStreamExpressions[1].expression.selects
    /\ streams[1].streamExpressionScore = JsNum(2)
    /\ streams[2].streamExpressionScore = JsUndefined

----------------------------------------------------------------------------
(* Properties of the pipeline (SpecPipeline) *)

\* the position of a stage in the pipeline
StageNumber(name) == CHOOSE n \in DOMAIN PipelineStages : PipelineStages[n] = name

\* the fetched streams with their SeaDex tags
TaggedStreams == PrecomputeSeaDexFromResult(FetchedStreams, seadexResult)

\* the streams that survive the filter, annotated
AnnotatedSurvivors ==
    precomputePreferred(SelectSeq(TaggedStreams, LAMBDA st : st.id \in request.keep),
                        userData, preferredStreamExpressions, rankedStreamExpressions)

----------------------------------------------------------------------------
(* Properties of initialise() (SpecInitialise) *)

\* C17: initialise() never throws; once it has returned the database is
\* marked initialised, and unless the detail level is none every source has
\* had its initial refresh, every source has its timer, and each source whose
\* refresh succeeded is loaded.
C17_InitialiseNeverFails ==
    /\ database.pc # "threw"
    /\ database.pc = "done" =>
           /\ database.isInitialised
           /\ database.levelOfDetail # "none" =>
                  /\ database.refreshTimers = DataSources
                  /\ database.loaded \cup database.failed =
                         {DataSources[n] : n \in DOMAIN DataSources}
    /\ \A n \in 1 .. (database.i - 1) :
           DataSources[n] \in database.loaded \cup database.failed

\* initialise() has returned after the refresh of every source but the
\* first failed
C17_InitialisedWithFailedSources ==
    /\ database.pc = "done"
    /\ database.isInitialised
    /\ database.loaded = {"fribbMappings"}
    /\ Cardinality(database.failed) = Len(DataSources) - 1
    /\ Len(database.refreshTimers) = Len(DataSources)

----------------------------------------------------------------------------
(* Properties of the season/episode tie-break (SpecLookup) *)

\* the last call entered the tie-break with at least one candidate
TieBreakEntered == lastRead.kind = "lookup" /\ lastRead.candidates # <<>>

\* the highest fromEpisode among the candidates of the last call
HighestFromEpisode ==
    CHOOSE n \in {lastRead.candidates[i].fromEpisode : i \in DOMAIN lastRead.candidates} :
        \A i \in DOMAIN lastRead.candidates : lastRead.candidates[i].fromEpisode <= n

\* the position of the earliest candidate with the highest fromEpisode
EarliestHighest ==
    CHOOSE i \in DOMAIN lastRead.candidates :
        /\ lastRead.candidates[i].fromEpisode = HighestFromEpisode
        /\ \A j \in 1 .. (i - 1) : lastRead.candidates[j].fromEpisode < HighestFromEpisode

\* C21: when the tie-break of getEntryById has candidates, the mapping it
\* selects is the one of a candidate with the highest fromEpisode, and of
\* the earliest such candidate (Kitsu candidates in list order, then the
\* AnimeList candidate) when several share it.
C21_HighestFromEpisodeEarliestWins ==
    TieBreakEntered
        => /\ lastRead.found.mappings = lastRead.candidates[EarliestHighest].mapping
           /\ \A i \in DOMAIN lastRead.candidates :
                  lastRead.candidates[i].fromEpisode
                      <= lastRead.candidates[EarliestHighest].fromEpisode

\* a Kitsu candidate and the AnimeList candidate of another mapping share
\* the highest fromEpisode, and the Kitsu candidate's mapping was selected
C21_TieWonByKitsuCandidate ==
    /\ TieBreakEntered
    /\ Len(lastRead.candidates) = 3
    /\ lastRead.candidates[1].fromEpisode = lastRead.candidates[3].fromEpisode
    /\ lastRead.candidates[2].fromEpisode < lastRead.candidates[1].fromEpisode
    /\ lastRead.candidates[3].animeListEntry # NoAnimeListEntry
    /\ lastRead.candidates[3].mapping # lastRead.candidates[1].mapping
    /\ lastRead.found.mappings = lastRead.candidates[1].mapping

\* the AnimeList entry of a candidate matches the season by its TVDB season
\* (or 'a'), or by its TMDB season
SeasonQualifies(entry, season) ==
    \/ entry.defaultTvdbSeason \in {season, [kind |-> "a", n |-> 0]}
    \/ entry.tmdbSeason = season

\* a candidate qualifies for the season and the episode asked for
CandidateQualifies(candidate, season, episode) ==
    /\ candidate.fromEpisode <= episode.n
    /\ IF candidate.animeListEntry = NoAnimeListEntry
       THEN dataStore.kitsuById[candidate.mapping.kitsuId].fromSeason = season
       ELSE /\ SeasonQualifies(candidate.animeListEntry, season)
            /\ episode.n >= 1 + NumberOr(candidate.animeListEntry.episodeOffset, 0)

\* C22 as stated: every candidate of the tie-break qualifies for the season
\* and episode asked for, so its fromEpisode never exceeds the episode.
C22_CandidatesQualify ==
    TieBreakEntered
        => \A i \in DOMAIN lastRead.candidates :
               CandidateQualifies(lastRead.candidates[i], lastRead.season, lastRead.episode)

----------------------------------------------------------------------------
(* Properties of buildAnimeEntry (SpecBuild) *)

\* the value the first of the sources that carries a property has for it
FirstCarried(pairs, absent) ==
    LET carried == SelectSeq(pairs, LAMBDA pair : pair[2] \in DOMAIN lastRead.found[pair[1]])
    IN  IF carried = <<>> THEN absent ELSE lastRead.found[carried[1][1]][carried[1][2]]

\* the cross id comes from the first entry, in the order of `pairs`, that
\* carries it, or from an Anitrakt entry that carries it when none of them
\* does, and is absent when no entry carries it
ByPriority(value, pairs, anitrakt, absent) ==
    IF FirstCarried(pairs, absent) # absent THEN value = FirstCarried(pairs, absent)
    ELSE IF FirstCarried(anitrakt, absent) # absent
    THEN \E i \in DOMAIN anitrakt :
             /\ anitrakt[i][2] \in DOMAIN lastRead.found[anitrakt[i][1]]
             /\ value = lastRead.found[anitrakt[i][1]][anitrakt[i][2]]
    ELSE value = absent

\* C23: each cross id of the entry built is the first value present in the
\* order mapping, animeList, kitsu, anitrakt for imdbId; animeList, kitsu,
\* mapping, anitrakt for thetvdbId; mapping, animeList, anitrakt for
\* themoviedbId; mapping, anitrakt for traktId.
C23_CrossIdsByPriority ==
    lastRead.kind = "build"
        => /\ ByPriority(lastRead.entry.imdbId,
                         << <<"mappings", "imdbId">>, <<"finalAnimeListEntry", "imdbId">>,
                            <<"kitsuEntry", "imdbId">> >>,
                         << <<"movieAnitraktEntry", "externalsImdb">>,
                            <<"tvAnitraktEntry", "externalsImdb">> >>, "none")
           /\ ByPriority(lastRead.entry.thetvdbId,
                         << <<"finalAnimeListEntry", "tvdbId">>, <<"kitsuEntry", "tvdbId">>,
                            <<"mappings", "thetvdbId">> >>,
                         << <<"tvAnitraktEntry", "externalsTvdb">> >>, 0)
           /\ ByPriority(lastRead.entry.themoviedbId,
                         << <<"mappings", "themoviedbId">>,
                            <<"finalAnimeListEntry", "tmdbId">>,
                            <<"finalAnimeListEntry", "tmdbTv">> >>,
                         << <<"movieAnitraktEntry", "externalsTmdb">>,
                            <<"tvAnitraktEntry", "externalsTmdb">> >>, 0)
           /\ ByPriority(lastRead.entry.traktId,
                         << <<"mappings", "traktId">> >>,
                         << <<"tvAnitraktEntry", "traktId">>,
                            <<"movieAnitraktEntry", "traktId">> >>, 0)

\* an entry was built whose TVDB id is the AnimeList one although the
\* mapping has one, and whose IMDb id is the mapping's although the
\* AnimeList entry has one
C23_AnimeListTvdbOverMapping ==
    /\ lastRead.kind = "build"
    /\ {"thetvdbId", "imdbId"} \subseteq DOMAIN lastRead.found.mappings
    /\ {"tvdbId", "imdbId"} \subseteq DOMAIN lastRead.found.finalAnimeListEntry
    /\ lastRead.entry.thetvdbId = lastRead.found.finalAnimeListEntry.tvdbId
    /\ lastRead.entry.imdbId = lastRead.found.mappings.imdbId

----------------------------------------------------------------------------
(* Properties of the Kitsu enrichment (SpecReload) *)

\* the Kitsu corpus is the last of the two that was loaded
KitsuLoadedLast ==
    corpus.order # <<>> /\ corpus.order[Len(corpus.order)] = "kitsuImdb"

\* both corpora have been loaded
BothLoaded == \A source \in {"fribbMappings", "kitsuImdb"} :
                  \E n \in DOMAIN corpus.order : corpus.order[n] = source

\* the kitsuIds whose Kitsu entry carries an imdbId
KitsuIdsWithImdbId ==
    {kitsuId \in DOMAIN dataStore.kitsuById : dataStore.kitsuById[kitsuId].imdbId # "none"}

\* the mappings the cross-reference lists under a kitsuId
ListedUnderKitsuId(kitsuId) ==
    {MapGetList(dataStore.fribbMappingsById.kitsuId, kitsuId)[j] :
        j \in DOMAIN MapGetList(dataStore.fribbMappingsById.kitsuId, kitsuId)}

\* how many mappings with the kitsuId the IMDb index lists under the imdbId
TimesListed(kitsuId, imdbId) ==
    Cardinality({j \in DOMAIN MapGetList(dataStore.fribbMappingsById.imdbId, imdbId) :
                    mappings[MapGetList(dataStore.fribbMappingsById.imdbId, imdbId)[j]].kitsuId
                        = kitsuId})

\* how many entries of the cross-reference file have the kitsuId and the imdbId
TimesInFile(kitsuId, imdbId) ==
    Cardinality({p \in DOMAIN corpus.fribb :
                    corpus.fribb[p].kitsuId = kitsuId /\ corpus.fribb[p].imdbId = imdbId})

C26_EnrichmentSurvivesRefreshes ==
    BothLoaded
        => \A kitsuId \in KitsuIdsWithImdbId : \A p \in ListedUnderKitsuId(kitsuId) :
               corpus.fribb[p].imdbId = "none"
                   => /\ mappings[p].imdbId = dataStore.kitsuById[kitsuId].imdbId
                      /\ TimesListed(kitsuId, dataStore.kitsuById[kitsuId].imdbId) >= 1
                      /\ (/\ lastRead.kind = "byImdbId"
                          /\ lastRead.idValue = dataStore.kitsuById[kitsuId].imdbId)
                             => \E j \in DOMAIN lastRead.listed :
                                    mappings[lastRead.listed[j]].kitsuId = kitsuId

----------------------------------------------------------------------------
(* Properties of the regex loop of precomputePreferredMatches (SpecRegex) *)

\* the attributes the stream has, among the four the loop tests
PresentAttributes(st) ==
    {st.filename, st.folderName, st.releaseGroup, st.indexer} \ {"none"}

\* the indices i for which (pattern i matches an attribute of the stream)
\* differs from (pattern i has the n flag)
QualifyingIndices(st) ==
    {i \in 0 .. (Len(userData.preferredRegexPatterns) - 1) :
        (PresentAttributes(st) \cap userData.preferredRegexPatterns[i + 1].matches # {})
            # userData.preferredRegexPatterns[i + 1].negate}

\* C25: regexMatched of every stream holds the lowest qualifying index with
\* the name and the source of the pattern at that index, and is unset when
\* no index qualifies; a stream with none of the four attributes gets the
\* first pattern that has the n flag.
C25_RegexMatchedIsFirstHit ==
    pc = "done"
        => \A k \in DOMAIN streams :
               /\ IF QualifyingIndices(streams[k]) = {}
                  THEN streams[k].regexMatched = JsUndefined
                  ELSE LET i == Min(QualifyingIndices(streams[k]))
                       IN  streams[k].regexMatched =
                               [kind |-> "object",
                                name |-> userData.preferredRegexPatterns[i + 1].name,
                                pattern |-> userData.preferredRegexPatterns[i + 1].source,
                                index |-> i]
               /\ PresentAttributes(streams[k]) = {} =>
                      QualifyingIndices(streams[k]) =
                          {i \in 0 .. (Len(userData.preferredRegexPatterns) - 1) :
                              userData.preferredRegexPatterns[i + 1].negate}

\* a stream without attributes passed a pattern without the n flag and was
\* matched by the negated pattern after it, which matches the attribute of
\* the other stream
C25_BareStreamMatchedByNegated ==
    /\ pc = "done"
    /\ PresentAttributes(streams[1]) = {}
    /\ PresentAttributes(streams[2]) = {"GRP"}
    /\ Len(userData.preferredRegexPatterns) = 2
    /\ ~userData.preferredRegexPatterns[1].negate
    /\ userData.preferredRegexPatterns[2].negate
    /\ userData.preferredRegexPatterns[2].matches = {"GRP"}
    /\ streams[1].regexMatched =
           [kind |-> "object", name |-> "other pattern", pattern |-> "GRP", index |-> 1]
    /\ streams[2].regexMatched = JsUndefined

----------------------------------------------------------------------------
(* Properties of the expression view of the Stream Context (SpecCtx) *)

\* the fetch of the slot has settled with a value
SettledWithValue(s) ==
    promise[s] = "settled" /\ settledWith[s] \in RemoteValues(s) \ {Undefined}

\* C27: once the metadata fetch has settled with a value, the title, year,
\* genres and absoluteEpisode of toExpressionContext() are those of the
\* fetched metadata, and once the SeaDex fetch has settled with a value,
\* hasSeaDex tells whether it has hashes, whether or not a getter was called
\* and awaited.
C27_ViewReflectsSettledFetches ==
    LET view == toExpressionContext(CtxState)
    IN  /\ SettledWithValue("metadata") =>
               LET fields == MetadataFields(settledWith["metadata"])
               IN  /\ view.title = fields.title
                   /\ view.year = fields.year
                   /\ view.genres = fields.genres
                   /\ view.absoluteEpisode = fields.absoluteEpisode
        /\ SettledWithValue("seadex") =>
               view.hasSeaDex = (SeaDexData(settledWith["seadex"]).allHashes # {})

----------------------------------------------------------------------------
(* Properties of the refreshDataSource runs in progress (SpecOverlap) *)

\* C28: at most one refreshDataSource run of a source is in progress at any
\* time, whoever started the runs: initialise(), called once or again while
\* an earlier call is suspended, and the timers.
C28_RefreshesNeverOverlap ==
    \A n \in DOMAIN DataSources : InProgress(database, DataSources[n]) <= 1

----------------------------------------------------------------------------
(* Properties of the persisted ETag (SpecRefresh) *)

\* the pass has ended well after it piped a GET response to the data file
DownloadedSuccessfully ==
    pass.pc = "done" /\ pass.outcome = "ok" /\ "streamed" \in pass.did

\* C29: after every pass that downloaded successfully, the ETag file holds
\* the ETag of the content written to the data file, which is the one the
\* GET response carried with it, however the remote changed around the HEAD
\* and GET requests and whether or not the HEAD request failed.  (Stated
\* here for the GET responses that carry an ETag.)
C29_PersistedEtagIsOfContentWritten ==
    (DownloadedSuccessfully /\ pass.responseEtag # "none") =>
        /\ disk.data = pass.body
        /\ disk.etag = pass.responseEtag

----------------------------------------------------------------------------
(* Properties of isPrivateIp (SpecIp) *)

\* C30: whenever isPrivateIp is true of 'a.b.c.d' it is true of
\* '::ffff:a.b.c.d'.
C30_MappedLikeEmbedded ==
    lastRead.kind = "isPrivateIp" =>
        (lastRead.dotted => lastRead.mapped /\ lastRead.mappedUpperCase)

====
